---- MODULE Spec2Model ----
(***************************************************************************)
(* Model of the transcription queue (lib/queue/transcription-queue.ts),   *)
(* the HTTP trigger route, the round store and the chunk store of the     *)
(* streaming ingest (lib/storage/files.js, lib/websocket/handler.js).     *)
(*                                                                         *)
(* Every `await` of the source is a scheduling point: one action of the   *)
(* model is the code between two awaits of one asynchronous task.         *)
(***************************************************************************)
EXTENDS Integers, Sequences, FiniteSets, TLC

(* ---------------- program constants ---------------- *)
LOCK_TTL_MS == 600000
MAX_ATTEMPTS == 3
maxRetries == 20
ORPHAN_THRESHOLD_MS == 7200000

(* ---------------- bounds of the model ---------------- *)
MaxJobs == 1
MaxCalls == 2
MaxCrashes == 1
MaxTicks == 1
MaxSeq == 3
MaxStreamSeq == 1
MaxClock == 7200001
MaxScanned == 2

Rounds == {"r1", "r2"}
\* the rounds that the requests to the running server name
PostedRounds == {"r1"}
Handlers == {"h1", "h2"}
Worker == "w"
Tasks == Handlers \cup {Worker}

NoLock == [exists |-> FALSE, written |-> FALSE, age |-> 0, owner |-> "none"]
NoJob == 0
\* the id of a job that a previous run of the server created: none of the
\* ids this run draws
OldJobId == MaxJobs + MaxCalls + 1
TimeoutErr == -1

VARIABLES
  queue,          \* data/queue/transcription.json: sequence of jobs
  lock,           \* data/queue/transcription.lock
  rounds,         \* data/rounds.json: roundId -> status
  transcript,     \* rounds whose <roundId>_deliberation.json exists
  workerStarted,  \* module flag of the running process
  loops,          \* polling loops running in the process
  nextId,         \* source of fresh job ids (uuidv4)
  crashes,        \* number of process crashes so far (bounded)
  ticks,          \* number of clock advances so far (bounded)
  pc,             \* per task: position in its code
  call,           \* per task: which entry point it is running
  op,             \* per task: which withLock body it is running
  attempt,        \* per task: loop counter of withLock
  snap,           \* per task: the QueueState read by readQueue
  arg,            \* per task: roundId the task works on
  ret,            \* per task: job id returned by the last queue call
  upd,            \* per task: status passed to updateJob
  saves,          \* per round: how many times a transcript was saved (history)
  claims,         \* per round: how many times claimNextJob returned a job of it (history)
  capped,         \* ids of the jobs whose attempts have reached MAX_ATTEMPTS (history)
  manifest,       \* per round: data/chunks/<roundId>/manifest.json
  chunks,         \* per round: sequences that have a chunk file
  saved,          \* per round and sequence: the payload saved last into the staging data (history)
  audio,          \* per round: the artifact in public/audio
  state,          \* the session state of the WebSocket connection
  cpc,            \* position of the running handleComplete / assembleChunks
  asm,            \* arguments of the running assembleChunks call
  triggered,      \* rounds for which triggerTranscription has sent its request
  reply,          \* the messages sent while the last frame was handled
  closed,         \* ws.close() has been called on the connection
  qfile,          \* transcription.json: "absent", "partial" (opened, not yet written) or "whole"
  tmp,            \* transcription.json.tmp: "absent", "partial" or "whole"
  now,            \* Date.now(), as far as a manifest's lastUpdate is compared with it
  scanned,        \* result.scanned of the cleanup runs: the chunk directories looked at
  sv,             \* per handler invocation that is in saveChunk: its position and locals
  ur              \* per caller that is in updateRound: its position and locals

vars == <<queue, lock, rounds, transcript, workerStarted, loops,
          nextId, crashes, ticks, pc, call, op, attempt, snap, arg, ret, upd, saves, claims, capped,
          manifest, chunks, saved, audio, state, cpc, asm, triggered, reply, closed,
          qfile, tmp, now, scanned, sv, ur>>

queueVars == <<queue, lock, rounds, transcript, workerStarted, loops,
               nextId, crashes, ticks, pc, call, op, attempt, snap, arg, ret, upd, saves, claims, capped>>
ingestVars == <<manifest, chunks, saved, audio, state, cpc, asm, triggered, reply, closed>>
histVars == <<claims, capped>>
\* the queue file as its writes go step by step, the clock, the sweep and
\* the calls that are inside saveChunk or updateRound
fileVars == <<qfile, tmp, now, scanned, sv, ur>>

(* ---------------- helpers on the queue document ---------------- *)
Active(job) == job.status = "queued" \/ job.status = "processing"

Indices(q) == 1..Len(q)

Min(a, b) == IF a <= b THEN a ELSE b

Max(a, b) == IF a >= b THEN a ELSE b

\* Array.prototype.find / findIndex: the first index that satisfies, 0 if none
\* S = the indices that satisfy
FirstIndex(S) ==
  IF S = {} THEN 0 ELSE CHOOSE i \in S : \A j \in S : i <= j

ActiveCount(q, r) == Cardinality({i \in Indices(q) : q[i].roundId = r /\ Active(q[i])})

\* updateRound of lib/storage/rounds.js: merges the status into an existing
\* record, returns null (no change) for an unknown round
UpdateRound(rs, r, s) == IF rs[r] = "absent" THEN rs ELSE [rs EXCEPT ![r] = s]

\* a new job that counts its creation as an attempt
NewJobAttempted(id, r) ==
  [id |-> id, roundId |-> r, status |-> "queued", attempts |-> 1, lastError |-> "none"]

\* enqueueTranscriptionJob, the job it creates
NewJob(id, r) ==
  [id |-> id, roundId |-> r, status |-> "queued", attempts |-> 0, lastError |-> "none"]

(* ---------------- the bodies run under withLock ---------------- *)
\* enqueueTranscriptionJob without the search for an existing active job
BodyEnqueueNoDedup(t) ==
  /\ snap' = [snap EXCEPT ![t] = Append(queue, NewJob(ret[t], arg[t]))]
  /\ pc' = [pc EXCEPT ![t] = "body_write"]
  /\ UNCHANGED ret

\* enqueueTranscriptionJob: the job id is drawn (uuidv4) when the call starts
BodyEnqueue(t) ==
  LET i == FirstIndex({k \in Indices(queue) : queue[k].roundId = arg[t] /\ Active(queue[k])}) IN
  IF i # 0
  THEN /\ ret' = [ret EXCEPT ![t] = queue[i].id]
       /\ pc' = [pc EXCEPT ![t] = "release"]
       /\ UNCHANGED snap
  ELSE /\ snap' = [snap EXCEPT ![t] = Append(queue, NewJob(ret[t], arg[t]))]
       /\ pc' = [pc EXCEPT ![t] = "body_write"]
       /\ UNCHANGED ret

\* updateJob(jobId, {status, lastError})
BodyUpdate(t) ==
  LET i == FirstIndex({k \in Indices(queue) : queue[k].id = ret[t]}) IN
  IF i = 0
  THEN /\ pc' = [pc EXCEPT ![t] = "release"]
       /\ UNCHANGED snap
  ELSE /\ snap' = [snap EXCEPT ![t] =
            [queue EXCEPT ![i].status = upd[t],
                          ![i].lastError = IF upd[t] = "error" THEN "message" ELSE "none"]]
       /\ pc' = [pc EXCEPT ![t] = "body_write"]

Claimable(j) == j.status = "queued" /\ j.attempts < MAX_ATTEMPTS

\* claimNextJob selecting the last claimable job
BodyClaimLast(t) ==
  LET S == {k \in Indices(queue) : Claimable(queue[k])}
      i == IF S = {} THEN 0 ELSE CHOOSE k \in S : \A m \in S : m <= k
  IN
  IF i = 0
  THEN /\ ret' = [ret EXCEPT ![t] = NoJob]
       /\ pc' = [pc EXCEPT ![t] = "release"]
       /\ UNCHANGED <<snap, arg>>
  ELSE /\ snap' = [snap EXCEPT ![t] =
            [queue EXCEPT ![i].status = "processing", ![i].attempts = @ + 1]]
       /\ ret' = [ret EXCEPT ![t] = queue[i].id]
       /\ arg' = [arg EXCEPT ![t] = queue[i].roundId]
       /\ pc' = [pc EXCEPT ![t] = "body_write"]

\* claimNextJob
BodyClaim(t) ==
  LET i == FirstIndex({k \in Indices(queue) : Claimable(queue[k])}) IN
  IF i = 0
  THEN /\ ret' = [ret EXCEPT ![t] = NoJob]
       /\ pc' = [pc EXCEPT ![t] = "release"]
       /\ UNCHANGED <<snap, arg>>
  ELSE /\ snap' = [snap EXCEPT ![t] =
            [queue EXCEPT ![i].status = "processing", ![i].attempts = @ + 1]]
       /\ ret' = [ret EXCEPT ![t] = queue[i].id]
       /\ arg' = [arg EXCEPT ![t] = queue[i].roundId]
       /\ pc' = [pc EXCEPT ![t] = "body_write"]

\* recoverQueue testing the attempts before the transcript
RecoverStatusAttemptsFirst(j) ==
  IF j.status # "processing" THEN j.status
  ELSE IF j.attempts < MAX_ATTEMPTS THEN "queued"
  ELSE IF j.roundId \in transcript THEN "completed"
  ELSE "error"

\* recoverQueue, the status one iteration of the for loop gives a job
RecoverStatus(j) ==
  IF j.status # "processing" THEN j.status
  ELSE IF j.roundId \in transcript THEN "completed"
  ELSE IF j.attempts < MAX_ATTEMPTS THEN "queued"
  ELSE "error"

\* recoverQueue giving a requeued job its attempts back
RecoverJobFreshAttempts(j) ==
  [j EXCEPT !.status = RecoverStatus(j),
            !.attempts = IF RecoverStatus(j) = "queued" THEN 0 ELSE @]

\* recoverQueue, the job one iteration of the for loop leaves
RecoverJob(j) == [j EXCEPT !.status = RecoverStatus(j)]

\* recoverQueue: the updateRound calls of the loop, in queue order
RECURSIVE RecoverRounds(_, _, _)
RecoverRounds(q, i, rs) ==
  IF i > Len(q) THEN rs
  ELSE LET j == q[i]
           s == RecoverStatus(j)
       IN RecoverRounds(q, i + 1,
            IF j.status = "processing" /\ s \in {"completed", "error"}
            THEN UpdateRound(rs, j.roundId, s) ELSE rs)

\* recoverQueue
BodyRecover(t) ==
  /\ rounds' = RecoverRounds(queue, 1, rounds)
  /\ IF \E i \in Indices(queue) : queue[i].status = "processing"
     THEN /\ snap' = [snap EXCEPT ![t] = [i \in Indices(queue) |-> RecoverJob(queue[i])]]
          /\ pc' = [pc EXCEPT ![t] = "body_write"]
     ELSE /\ pc' = [pc EXCEPT ![t] = "release"]
          /\ UNCHANGED snap

\* the first await of a withLock body: readQueue and the code up to writeQueue
BodyRead(t) ==
  /\ pc[t] = "body_read"
  /\ CASE op[t] = "enqueue" -> BodyEnqueue(t) /\ UNCHANGED <<arg, rounds>>
       [] op[t] = "update" -> BodyUpdate(t) /\ UNCHANGED <<arg, ret, rounds>>
       [] op[t] = "claim" -> BodyClaim(t) /\ UNCHANGED rounds
       [] op[t] = "recover" -> BodyRecover(t) /\ UNCHANGED <<arg, ret>>
  /\ claims' = IF op[t] = "claim" /\ pc'[t] = "body_write"
               THEN [claims EXCEPT ![arg'[t]] = @ + 1] ELSE claims
  /\ UNCHANGED <<queue, lock, transcript, workerStarted, loops, nextId,
                 call, op, attempt, upd, saves>>
  /\ UNCHANGED <<capped, crashes, ticks>>
  /\ UNCHANGED <<ingestVars, fileVars>>

\* writeQueue: the document is replaced by the task's in-memory QueueState
BodyWrite(t) ==
  /\ pc[t] = "body_write"
  /\ queue' = snap[t]
  /\ pc' = [pc EXCEPT ![t] = "release"]
  /\ UNCHANGED <<lock, rounds, transcript, workerStarted, loops, nextId,
                 call, op, attempt, snap, arg, ret, upd, saves>>
  /\ capped' = capped \cup {snap[t][i].id : i \in {k \in Indices(snap[t]) : snap[t][k].attempts >= MAX_ATTEMPTS}}
  /\ UNCHANGED <<claims, crashes, ticks>>
  /\ UNCHANGED <<ingestVars, fileVars>>

(* ---------------- what the caller does when withLock is over ---------------- *)
\* withLock(fn) is entered: attempt = 0, acquireLock()
Enter(t, o) ==
  /\ op' = [op EXCEPT ![t] = o]
  /\ attempt' = [attempt EXCEPT ![t] = 0]
  /\ pc' = [pc EXCEPT ![t] = "acq_open"]

Leave(t, p) ==
  /\ op' = [op EXCEPT ![t] = "none"]
  /\ attempt' = [attempt EXCEPT ![t] = 0]
  /\ pc' = [pc EXCEPT ![t] = p]

\* startTranscriptionWorker: if (workerStarted) return; workerStarted = true;
\* await recoverQueue()
StartTranscriptionWorkerAlways(t, after) ==
  /\ Enter(t, "recover") /\ workerStarted' = TRUE
  /\ UNCHANGED loops

\* startTranscriptionWorker that tests workerStarted but does not set it
StartTranscriptionWorkerFlagUnset(t, after) ==
  /\ IF workerStarted
     THEN Leave(t, after)
     ELSE Enter(t, "recover")
  /\ UNCHANGED <<workerStarted, loops>>

\* startTranscriptionWorker up to `await recoverQueue()`; after = where the
\* caller goes on when the call returns at once
StartTranscriptionWorker(t, after) ==
  /\ IF workerStarted
     THEN Leave(t, after) /\ UNCHANGED workerStarted
     ELSE Enter(t, "recover") /\ workerStarted' = TRUE
  /\ UNCHANGED loops

\* the call of task t is over: its locals are gone
Return(t) ==
  /\ call' = [call EXCEPT ![t] = "none"]
  /\ arg' = [arg EXCEPT ![t] = "none"]
  /\ ret' = [ret EXCEPT ![t] = NoJob]

\* startTranscriptionWorker after recoverQueue: loop() is started, its first
\* statement is claimNextJob(); the caller returns
StartLoop(t) ==
  /\ op' = [op EXCEPT ![t] = "none", ![Worker] = "claim"]
  /\ attempt' = [attempt EXCEPT ![t] = 0, ![Worker] = 0]
  /\ pc' = [pc EXCEPT ![t] = "idle", ![Worker] = "acq_open"]
  /\ call' = [call EXCEPT ![t] = "none", ![Worker] = "loop"]
  /\ arg' = [arg EXCEPT ![t] = "none"]
  /\ ret' = [ret EXCEPT ![t] = NoJob]
  /\ loops' = loops + 1

\* the worker loop goes on to its next claimNextJob()
NextClaim(t) ==
  /\ Enter(t, "claim")
  /\ arg' = [arg EXCEPT ![t] = "none"]
  /\ ret' = [ret EXCEPT ![t] = NoJob]
  /\ UNCHANGED call

\* the code that follows `await withLock(...)` in the caller, up to its next
\* await; ok = withLock returned, ~ok = it threw 'Queue lock timeout.'
Resume(t, ok) ==
  CASE call[t] = "enqueue" ->
         /\ Leave(t, "idle")
         /\ ret' = [ret EXCEPT ![t] = IF ok THEN @ ELSE TimeoutErr]
         /\ UNCHANGED <<call, arg, workerStarted, loops, upd>>
    [] call[t] = "post" /\ op[t] = "enqueue" ->
         /\ IF ok
            THEN /\ StartTranscriptionWorker(t, "idle")
                 /\ IF workerStarted
                    THEN Return(t)
                    ELSE ret' = [ret EXCEPT ![t] = NoJob] /\ UNCHANGED <<call, arg>>
            ELSE /\ Leave(t, "h_err")
                 /\ ret' = [ret EXCEPT ![t] = NoJob]
                 /\ UNCHANGED <<workerStarted, loops, call, arg>>
         /\ UNCHANGED upd
    [] call[t] \in {"post", "start"} /\ op[t] = "recover" ->
         /\ IF ok THEN StartLoop(t)
                  ELSE IF call[t] = "post"
                       THEN Leave(t, "h_err") /\ UNCHANGED <<call, arg, ret, loops>>
                       ELSE Leave(t, "idle") /\ Return(t) /\ UNCHANGED loops
         /\ UNCHANGED <<workerStarted, upd>>
    [] call[t] = "loop" /\ op[t] = "claim" ->
         \* loop: a job -> processJob(job); none or an error -> sleep, claim again
         /\ IF ok /\ ret[t] # NoJob
            THEN Leave(t, "p_engine") /\ UNCHANGED <<call, arg, ret>>
            ELSE NextClaim(t)
         /\ UNCHANGED <<workerStarted, loops, upd>>
    [] call[t] = "loop" /\ op[t] = "update" ->
         \* processJob: updateJob(completed) threw -> catch branch; otherwise
         \* processJob is over (or threw into the loop's catch): claim again
         /\ IF ~ok /\ upd[t] = "completed"
            THEN Leave(t, "p_fail") /\ UNCHANGED <<call, arg, ret>>
            ELSE NextClaim(t)
         /\ upd' = [upd EXCEPT ![t] = "none"]
         /\ UNCHANGED <<workerStarted, loops>>

(* ---------------- withLock / acquireLock / releaseLock ---------------- *)
\* lock.age stands for Date.now() - startedAt of the lock file; the code
\* tests nothing but age > LOCK_TTL_MS, so ages beyond LOCK_TTL_MS + 1 are
\* kept as LOCK_TTL_MS + 1
Expired(l) == l.age > LOCK_TTL_MS

\* withLock throwing 'Queue lock timeout.' after its first failed acquireLock
NotAcquiredOnce(t, again) == Resume(t, FALSE)

\* withLock, !gotLock: sleep retryDelayMs, attempt += 1, and either the next
\* iteration or, after maxRetries iterations, throw 'Queue lock timeout.'
\* again = the lock file that made acquireLock fail is still there: while no
\* other task runs, the following iterations fail on it in the same way and
\* change nothing but `attempt`; they are taken together with this one, up to
\* the last or the last but one iteration of the loop.
NotAcquired(t, again) ==
  IF attempt[t] + 1 < maxRetries
  THEN /\ \E n \in (IF again
                    THEN {m \in {maxRetries - 2, maxRetries - 1} : m > attempt[t]}
                    ELSE {attempt[t] + 1}) :
            attempt' = [attempt EXCEPT ![t] = n]
       /\ pc' = [pc EXCEPT ![t] = "acq_open"]
       /\ UNCHANGED <<ret, arg, op, call, workerStarted, loops, upd>>
  ELSE Resume(t, FALSE)

\* acquireLock: fs.open(LOCK_FILE, 'wx'); when the file exists, the catch
\* branch: readFile + JSON.parse + TTL test (a file that is still empty makes
\* the inner try throw, which returns false)
AcqOpen(t) ==
  /\ pc[t] = "acq_open"
  /\ IF ~lock.exists
     THEN /\ lock' = [exists |-> TRUE, written |-> FALSE, age |-> 0, owner |-> t]
          /\ pc' = [pc EXCEPT ![t] = "acq_write"]
          /\ UNCHANGED <<attempt, ret, arg, op, call, workerStarted, loops, upd>>
     ELSE /\ UNCHANGED lock
          /\ IF lock.written /\ Expired(lock)
             THEN /\ pc' = [pc EXCEPT ![t] = "acq_unlink"]
                  /\ UNCHANGED <<attempt, ret, arg, op, call, workerStarted, loops, upd>>
             ELSE NotAcquired(t, TRUE)
  /\ UNCHANGED <<queue, rounds, transcript, nextId, snap, saves>>
  /\ UNCHANGED <<histVars, crashes, ticks>>
  /\ UNCHANGED <<ingestVars, fileVars>>

\* acquireLock: handle.writeFile({pid, startedAt: Date.now()}); close; return true.
\* The write goes to the file this task created, which may have been
\* unlinked (and replaced) in the meantime.
AcqWrite(t) ==
  /\ pc[t] = "acq_write"
  /\ lock' = IF lock.exists /\ lock.owner = t
             THEN [lock EXCEPT !.written = TRUE, !.age = 0]
             ELSE lock
  /\ pc' = [pc EXCEPT ![t] = "body_read"]
  /\ UNCHANGED <<queue, rounds, transcript, workerStarted, loops, nextId,
                 call, op, attempt, snap, arg, ret, upd, saves>>
  /\ UNCHANGED <<histVars, crashes, ticks>>
  /\ UNCHANGED <<ingestVars, fileVars>>

\* acquireLock: fs.unlink(LOCK_FILE); return acquireLock()
AcqUnlink(t) ==
  /\ pc[t] = "acq_unlink"
  /\ IF lock.exists
     THEN /\ lock' = NoLock
          /\ pc' = [pc EXCEPT ![t] = "acq_open"]
          /\ UNCHANGED <<attempt, ret, arg, op, call, workerStarted, loops, upd>>
     ELSE /\ UNCHANGED lock
          /\ NotAcquired(t, FALSE)
  /\ UNCHANGED <<queue, rounds, transcript, nextId, snap, saves>>
  /\ UNCHANGED <<histVars, crashes, ticks>>
  /\ UNCHANGED <<ingestVars, fileVars>>

\* releaseLock (finally of withLock): unlink whatever file is at LOCK_FILE
Release(t) ==
  /\ pc[t] = "release"
  /\ lock' = NoLock
  /\ snap' = [snap EXCEPT ![t] = <<>>]
  /\ Resume(t, TRUE)
  /\ UNCHANGED <<queue, rounds, transcript, nextId, saves>>
  /\ UNCHANGED <<histVars, crashes, ticks>>
  /\ UNCHANGED <<ingestVars, fileVars>>

(* ---------------- callers of the queue ---------------- *)
\* a direct call of enqueueTranscriptionJob({roundId: r, ...})
CallEnqueue(t, r) ==
  /\ pc[t] = "idle"
  /\ nextId < MaxCalls
  /\ nextId' = nextId + 1
  /\ ret' = [ret EXCEPT ![t] = nextId + 1]
  /\ call' = [call EXCEPT ![t] = "enqueue"]
  /\ arg' = [arg EXCEPT ![t] = r]
  /\ Enter(t, "enqueue")
  /\ UNCHANGED <<queue, lock, rounds, transcript, workerStarted, loops,
                 snap, upd, saves>>
  /\ UNCHANGED <<histVars, crashes, ticks>>
  /\ UNCHANGED <<ingestVars, fileVars>>

\* POST /api/rounds/[roundId]/transcribe: getRound, audio_file || audioFileExists,
\* updateRound(roundId, {status: PROCESSING, audio_file}), enqueueTranscriptionJob
PostTrigger(t, r) ==
  /\ pc[t] = "idle"
  /\ nextId < MaxJobs
  /\ rounds[r] # "absent"
  /\ audio[r].exists
  /\ rounds' = UpdateRound(rounds, r, "processing")
  /\ nextId' = nextId + 1
  /\ ret' = [ret EXCEPT ![t] = nextId + 1]
  /\ call' = [call EXCEPT ![t] = "post"]
  /\ arg' = [arg EXCEPT ![t] = r]
  /\ Enter(t, "enqueue")
  /\ UNCHANGED <<queue, lock, transcript, workerStarted, loops,
                 snap, upd, saves>>
  /\ UNCHANGED <<histVars, crashes, ticks>>
  /\ UNCHANGED <<ingestVars, fileVars>>

\* POST /api/queue/start (server.js calls it when the server listens)
StartRoute(t) ==
  /\ pc[t] = "idle"
  /\ call' = [call EXCEPT ![t] = "start"]
  /\ StartTranscriptionWorker(t, "s_reply")
  /\ UNCHANGED <<queue, lock, rounds, transcript,
                 nextId, snap, arg, ret, upd, saves>>
  /\ UNCHANGED <<histVars, crashes, ticks>>
  /\ UNCHANGED <<ingestVars, fileVars>>

\* POST /api/queue/start after startTranscriptionWorker() returned at once:
\* reply {started: true}
StartReply(t) ==
  /\ pc[t] = "s_reply"
  /\ pc' = [pc EXCEPT ![t] = "idle"]
  /\ Return(t)
  /\ UNCHANGED <<queue, lock, rounds, transcript, workerStarted, loops, nextId,
                 op, attempt, snap, upd, saves>>
  /\ UNCHANGED <<histVars, crashes, ticks>>
  /\ UNCHANGED <<ingestVars, fileVars>>

\* POST, catch branch: updateRound(roundId, {status: ERROR}); reply 500
PostError(t) ==
  /\ pc[t] = "h_err"
  /\ rounds' = UpdateRound(rounds, arg[t], "error")
  /\ pc' = [pc EXCEPT ![t] = "idle"]
  /\ Return(t)
  /\ UNCHANGED <<queue, lock, transcript, workerStarted, loops, nextId,
                 op, attempt, snap, upd, saves>>
  /\ UNCHANGED <<histVars, crashes, ticks>>
  /\ UNCHANGED <<ingestVars, fileVars>>

(* ---------------- processJob ---------------- *)
\* processJob: getRound, fs.access(audioPath), transcribeWithVosk and
\* saveTranscription; ok = none of them threw
ProcessEngine(t, ok) ==
  /\ pc[t] = "p_engine"
  /\ IF rounds[arg[t]] = "absent"
     THEN \* updateJob(job.id, {status: 'error', lastError: 'Round not found'})
          /\ Enter(t, "update")
          /\ upd' = [upd EXCEPT ![t] = "error"]
          /\ UNCHANGED <<transcript, saves>>
     ELSE /\ pc' = [pc EXCEPT ![t] = IF ok THEN "p_round" ELSE "p_fail"]
          /\ transcript' = IF ok THEN transcript \cup {arg[t]} ELSE transcript
          /\ saves' = IF ok THEN [saves EXCEPT ![arg[t]] = @ + 1] ELSE saves
          /\ UNCHANGED <<op, attempt, upd>>
  /\ UNCHANGED <<queue, lock, rounds, workerStarted, loops, nextId,
                 call, snap, arg, ret>>
  /\ UNCHANGED <<histVars, crashes, ticks>>
  /\ UNCHANGED <<ingestVars, fileVars>>

\* processJob running the engine again after the transcript is saved
ProcessRoundAgain(t) ==
  /\ pc[t] = "p_round"
  /\ rounds' = UpdateRound(rounds, arg[t], "completed")
  /\ pc' = [pc EXCEPT ![t] = "p_engine"]
  /\ UNCHANGED <<op, attempt, upd>>
  /\ UNCHANGED <<queue, lock, transcript, workerStarted, loops, nextId,
                 call, snap, arg, ret, saves>>
  /\ UNCHANGED <<histVars, crashes, ticks>>
  /\ UNCHANGED <<ingestVars, fileVars>>

\* processJob that marks the job completed without updating the round
ProcessRoundJobOnly(t) ==
  /\ pc[t] = "p_round"
  /\ Enter(t, "update")
  /\ upd' = [upd EXCEPT ![t] = "completed"]
  /\ UNCHANGED <<queue, lock, rounds, transcript, workerStarted, loops, nextId,
                 call, snap, arg, ret, saves>>
  /\ UNCHANGED <<histVars, crashes, ticks>>
  /\ UNCHANGED <<ingestVars, fileVars>>

\* processJob: updateRound(COMPLETED) and the call of updateJob(completed)
ProcessRound(t) ==
  /\ pc[t] = "p_round"
  /\ rounds' = UpdateRound(rounds, arg[t], "completed")
  /\ Enter(t, "update")
  /\ upd' = [upd EXCEPT ![t] = "completed"]
  /\ UNCHANGED <<queue, lock, transcript, workerStarted, loops, nextId,
                 call, snap, arg, ret, saves>>
  /\ UNCHANGED <<histVars, crashes, ticks>>
  /\ UNCHANGED <<ingestVars, fileVars>>

\* processJob, catch branch: updateRound(ERROR) and the call of updateJob(error)
ProcessFail(t) ==
  /\ pc[t] = "p_fail"
  /\ rounds' = UpdateRound(rounds, arg[t], "error")
  /\ Enter(t, "update")
  /\ upd' = [upd EXCEPT ![t] = "error"]
  /\ UNCHANGED <<queue, lock, transcript, workerStarted, loops, nextId,
                 call, snap, arg, ret, saves>>
  /\ UNCHANGED <<histVars, crashes, ticks>>
  /\ UNCHANGED <<ingestVars, fileVars>>

(* ---------------- environment ---------------- *)
\* the server process dies and is started again: memory is lost, files stay
Crash ==
  /\ crashes < MaxCrashes
  /\ crashes' = crashes + 1
  /\ workerStarted' = FALSE
  /\ loops' = 0
  /\ lock' = IF lock.exists THEN [lock EXCEPT !.owner = "dead"] ELSE lock
  /\ pc' = [t \in Tasks |-> IF t = Worker THEN "off" ELSE "idle"]
  /\ call' = [t \in Tasks |-> "none"]
  /\ op' = [t \in Tasks |-> "none"]
  /\ attempt' = [t \in Tasks |-> 0]
  /\ snap' = [t \in Tasks |-> <<>>]
  /\ arg' = [t \in Tasks |-> "none"]
  /\ ret' = [t \in Tasks |-> NoJob]
  /\ upd' = [t \in Tasks |-> "none"]
  /\ UNCHANGED <<queue, rounds, transcript, nextId, saves>>
  /\ UNCHANGED <<histVars, ticks>>
  /\ UNCHANGED <<ingestVars, fileVars>>

\* the clock advances by d while a written lock file exists
Tick(d) ==
  /\ ticks < MaxTicks
  /\ ticks' = ticks + 1
  /\ lock.exists /\ lock.written /\ ~Expired(lock)
  /\ lock' = [lock EXCEPT !.age = Min(@ + d, LOCK_TTL_MS + 1)]
  /\ UNCHANGED <<queue, rounds, transcript, workerStarted, loops, nextId,
                 pc, call, op, attempt, snap, arg, ret, upd, saves>>
  /\ UNCHANGED <<histVars, crashes>>
  /\ UNCHANGED <<ingestVars, fileVars>>

InitTasks ==
  /\ workerStarted = FALSE
  /\ loops = 0
  /\ pc = [t \in Tasks |-> IF t = Worker THEN "off" ELSE "idle"]
  /\ call = [t \in Tasks |-> "none"]
  /\ op = [t \in Tasks |-> "none"]
  /\ attempt = [t \in Tasks |-> 0]
  /\ snap = [t \in Tasks |-> <<>>]
  /\ arg = [t \in Tasks |-> "none"]
  /\ ret = [t \in Tasks |-> NoJob]
  /\ upd = [t \in Tasks |-> "none"]

NoManifest == [exists |-> FALSE, receivedSequences |-> <<>>, totalChunks |-> 0, lastUpdate |-> 0]

\* the bytes of a frame or of a file: two audio payloads, bytes that are no
\* audio payload (the text of a control message, anything else)
Payloads == {"A", "B"}
NoPayload == "X"
NoChunk == "none"
NoChunks == [i \in 0..MaxSeq |-> NoChunk]
NoAudio == [exists |-> FALSE, bytes |-> <<>>]
\* an artifact that saveAudioFile stored for an uploaded recording
Uploaded == [exists |-> TRUE, bytes |-> <<"A">>]
NoSequence == -1
NoAssemble == [roundId |-> "none", totalChunks |-> 0, direct |-> FALSE]
\* the handler invocations of one connection that can be in saveChunk at a time
Savers == {"s1", "s2"}
\* the callers of updateRound: the ingest session (handleInit) and the
\* worker (processJob)
Updaters == {"session", "worker"}
\* a caller that is not in updateRound
NoUpdate == [pc |-> "idle", roundId |-> "none", status |-> "none", rs |-> <<>>]
\* a handler invocation that is not in saveChunk
NoSave == [pc |-> "idle", sequence |-> NoSequence, m |-> NoManifest, buffered |-> FALSE]

\* the queue file exists and holds `queue`, no temporary file is
\* left, no handler is in saveChunk
InitFiles ==
  /\ qfile = "whole"
  /\ tmp = "absent"
  /\ now = 0
  /\ scanned = 0
  /\ sv = [s \in Savers |-> NoSave]
  /\ ur = [u \in Updaters |-> NoUpdate]

\* handleConnection: the state of a new connection
NewSession ==
  [roundId |-> "none", lastReceivedSequence |-> -1, expectedSequence |-> 0,
   awaitingChunkData |-> FALSE, pendingChunkSequence |-> NoSequence,
   unexpectedBinaryBuffer |-> NoChunk]

\* no staging data, no artifact, a new connection
InitChunks ==
  /\ manifest = [r \in Rounds |-> NoManifest]
  /\ chunks = [r \in Rounds |-> NoChunks]
  /\ saved = [r \in Rounds |-> NoChunks]
  /\ state = NewSession
  /\ cpc = "idle"
  /\ asm = NoAssemble
  /\ triggered = {}
  /\ reply = <<>>
  /\ closed = FALSE

\* a lock file left behind by a process that died while it held the lock
StaleLock == [exists |-> TRUE, written |-> TRUE, age |-> 0, owner |-> "dead"]

\* queue documents a server start can find: none yet, or a job that the
\* previous run of the server left in `processing` at its 1st..3rd attempt
InitQueues ==
  {<<>>} \cup
  {<<[id |-> OldJobId, roundId |-> r, status |-> "processing", attempts |-> a,
      lastError |-> "none"]>> : r \in Rounds, a \in 1..MAX_ATTEMPTS}

InitDisk(q, l, tr) ==
  /\ queue = q
  /\ lock = l
  /\ transcript = tr
  /\ nextId = 0
  /\ saves = [r \in Rounds |-> IF r \in tr THEN 1 ELSE 0]
  /\ claims = [r \in Rounds |-> IF q # <<>> /\ q[1].roundId = r THEN q[1].attempts ELSE 0]
  /\ capped = {q[i].id : i \in {k \in Indices(q) : q[k].attempts >= MAX_ATTEMPTS}}
  /\ crashes = 0
  /\ ticks = 0
  /\ audio = [r \in Rounds |-> Uploaded]
  /\ rounds = [r \in Rounds |-> "processing"]

\* the server starts; the rounds have an assembled or uploaded artifact; the
\* files are those of a fresh installation or those a crashed run left
Init ==
  /\ InitTasks
  /\ InitChunks
  /\ InitFiles
  /\ \E q \in InitQueues, l \in {NoLock, StaleLock} :
       \E tr \in (IF q = <<>> THEN {{}} ELSE {{}, {q[1].roundId}}) : InitDisk(q, l, tr)

\* the server starts with an empty queue
InitEnqueue ==
  /\ InitTasks
  /\ InitChunks
  /\ InitFiles
  /\ \E l \in {NoLock, StaleLock} : InitDisk(<<>>, l, {})

LockStep(t) ==
  \/ AcqOpen(t)
  \/ AcqWrite(t)
  \/ AcqUnlink(t)
  \/ BodyRead(t)
  \/ BodyWrite(t)
  \/ Release(t)

\* the queue with its worker and one HTTP caller
Next ==
  \/ \E t \in {"h1", Worker} : LockStep(t)
  \/ \E r \in PostedRounds : PostTrigger("h1", r)
  \/ StartRoute("h1")
  \/ StartReply("h1")
  \/ PostError("h1")
  \/ \E ok \in BOOLEAN : ProcessEngine(Worker, ok)
  \/ ProcessRound(Worker)
  \/ ProcessFail(Worker)
  \/ Crash
  \/ \E d \in {LOCK_TTL_MS, LOCK_TTL_MS + 1} : Tick(d)

Spec == Init /\ [][Next]_vars

\* the queue with its worker and one HTTP caller in a process that keeps
\* running
NextLive ==
  \/ \E t \in {"h1", Worker} : LockStep(t)
  \/ \E r \in PostedRounds : PostTrigger("h1", r)
  \/ StartRoute("h1")
  \/ StartReply("h1")
  \/ PostError("h1")
  \/ \E ok \in BOOLEAN : ProcessEngine(Worker, ok)
  \/ ProcessRound(Worker)
  \/ ProcessFail(Worker)
  \/ \E d \in {LOCK_TTL_MS, LOCK_TTL_MS + 1} : Tick(d)

\* every asynchronous task that can go on does go on (the event loop runs
\* each continuation whose await is over): file operations end, the timers
\* of withLock and of the loop fire, the engine call returns or fails;
\* requests arrive or not
SpecLive ==
  /\ Init /\ [][NextLive]_vars
  /\ \A t \in {"h1", Worker} :
       WF_vars(\/ LockStep(t)
               \/ StartReply(t)
               \/ PostError(t)
               \/ \E ok \in BOOLEAN : ProcessEngine(t, ok)
               \/ ProcessRound(t)
               \/ ProcessFail(t))

\* the same tasks in a server process that can die and be started again
SpecCrash ==
  /\ Init /\ [][Next]_vars
  /\ \A t \in {"h1", Worker} :
       WF_vars(\/ LockStep(t)
               \/ StartReply(t)
               \/ PostError(t)
               \/ \E ok \in BOOLEAN : ProcessEngine(t, ok)
               \/ ProcessRound(t)
               \/ ProcessFail(t))

\* concurrent callers of startTranscriptionWorker and the worker they start
NextStart ==
  \/ \E t \in Tasks : LockStep(t)
  \/ \E t \in Handlers : StartRoute(t)
  \/ \E t \in Handlers : StartReply(t)
  \/ \E ok \in BOOLEAN : ProcessEngine(Worker, ok)
  \/ ProcessRound(Worker)
  \/ ProcessFail(Worker)
  \/ Crash
  \/ \E d \in {LOCK_TTL_MS, LOCK_TTL_MS + 1} : Tick(d)

SpecStart == Init /\ [][NextStart]_vars

\* concurrent callers of enqueueTranscriptionJob, no worker
NextEnqueue ==
  \/ \E t \in Handlers : LockStep(t)
  \/ \E t \in Handlers, r \in Rounds : CallEnqueue(t, r)
  \/ Crash
  \/ \E d \in {LOCK_TTL_MS, LOCK_TTL_MS + 1} : Tick(d)

SpecEnqueue == InitEnqueue /\ [][NextEnqueue]_vars

(* ---------------- the queue file, write by write ---------------- *)
\* the error of JSON.parse in readQueue, as the result of a queue call
ParseErr == -2

\* ensureQueueFile of readQueue when fs.access fails: fs.writeFile(QUEUE_FILE,
\* '{"jobs": []}') creates the file, then writes its content
EnsureQueueFile(t) ==
  /\ \/ /\ pc[t] = "body_read" /\ qfile = "absent"
        /\ qfile' = "partial"
        /\ pc' = [pc EXCEPT ![t] = "ensure"]
        /\ UNCHANGED queue
     \/ /\ pc[t] = "ensure"
        /\ qfile' = "whole"
        /\ queue' = <<>>
        /\ pc' = [pc EXCEPT ![t] = "body_read"]
  /\ UNCHANGED <<lock, rounds, transcript, workerStarted, loops, nextId,
                 call, op, attempt, snap, arg, ret, upd, saves, tmp, now, scanned, sv, ur>>
  /\ UNCHANGED <<histVars, crashes, ticks>>
  /\ UNCHANGED ingestVars

\* readQueue on an existing file: fs.readFile and JSON.parse, which throws on
\* a file that does not hold a whole document; then the body up to writeQueue
ReadQueue(t) ==
  /\ qfile # "absent"
  /\ IF qfile = "whole"
     THEN BodyRead(t)
     ELSE /\ pc[t] = "body_read"
          /\ pc' = [pc EXCEPT ![t] = "release"]
          /\ ret' = [ret EXCEPT ![t] = ParseErr]
          /\ UNCHANGED <<queue, lock, rounds, transcript, workerStarted, loops, nextId,
                         call, op, attempt, snap, arg, upd, saves>>
          /\ UNCHANGED <<histVars, crashes, ticks>>
          /\ UNCHANGED <<ingestVars, fileVars>>

\* writeQueue: fs.writeFile(tempPath, ...) creates the temporary file, then
\* writes its content; fs.rename(tempPath, QUEUE_FILE) replaces the document
WriteQueue(t) ==
  /\ \/ /\ pc[t] = "body_write" /\ qfile # "absent"
        /\ tmp' = "partial"
        /\ pc' = [pc EXCEPT ![t] = "w_tmp"]
        /\ UNCHANGED <<queue, qfile, capped>>
     \/ /\ pc[t] = "w_tmp"
        /\ tmp' = "whole"
        /\ pc' = [pc EXCEPT ![t] = "w_rename"]
        /\ UNCHANGED <<queue, qfile, capped>>
     \/ /\ pc[t] = "w_rename"
        /\ queue' = snap[t]
        /\ qfile' = tmp
        /\ tmp' = "absent"
        /\ pc' = [pc EXCEPT ![t] = "release"]
        /\ capped' = capped \cup {snap[t][i].id : i \in {k \in Indices(snap[t]) : snap[t][k].attempts >= MAX_ATTEMPTS}}
  /\ UNCHANGED <<lock, rounds, transcript, workerStarted, loops, nextId,
                 call, op, attempt, snap, arg, ret, upd, saves>>
  /\ UNCHANGED <<claims, crashes, ticks, now, scanned, sv, ur>>
  /\ UNCHANGED ingestVars

\* one caller of enqueueTranscriptionJob after the other, on a fresh
\* installation or on an existing queue file; the process may crash
NextWrite ==
  \/ \E r \in Rounds : CallEnqueue("h1", r)
  \/ AcqOpen("h1")
  \/ AcqWrite("h1")
  \/ AcqUnlink("h1")
  \/ EnsureQueueFile("h1")
  \/ ReadQueue("h1")
  \/ WriteQueue("h1")
  \/ Release("h1")
  \/ Crash
  \/ \E d \in {LOCK_TTL_MS, LOCK_TTL_MS + 1} : Tick(d)

\* a server that starts with or without its queue file
InitWrite ==
  /\ InitTasks /\ InitChunks
  /\ InitDisk(<<>>, NoLock, {})
  /\ qfile \in {"absent", "whole"} /\ tmp = "absent" /\ now = 0 /\ scanned = 0
  /\ sv = [s \in Savers |-> NoSave]
  /\ ur = [u \in Updaters |-> NoUpdate]

SpecWrite == InitWrite /\ [][NextWrite]_vars

(* ---------------- chunk store (lib/storage/files.js) ---------------- *)
Range(f) == {f[i] : i \in DOMAIN f}

\* updateChunkManifest recording a sequence only when it is beyond the
\* ones recorded so far
UpdateChunkManifestInOrder(m, sequence) ==
  LET old == IF m.exists THEN m ELSE [NoManifest EXCEPT !.exists = TRUE]
      seqs == IF sequence < old.totalChunks
              THEN old.receivedSequences
              ELSE Append(old.receivedSequences, sequence)
  IN [exists |-> TRUE, receivedSequences |-> seqs,
      totalChunks |-> Max(old.totalChunks, sequence + 1), lastUpdate |-> now]

\* updateChunkManifest: read the manifest or start a new one, add the
\* sequence if it is not included, sort, raise totalChunks, set lastUpdate
UpdateChunkManifest(m, sequence) ==
  LET old == IF m.exists THEN m ELSE [NoManifest EXCEPT !.exists = TRUE]
      seqs == IF sequence \in Range(old.receivedSequences)
              THEN old.receivedSequences
              ELSE SortSeq(Append(old.receivedSequences, sequence), LAMBDA x, y : x < y)
  IN [exists |-> TRUE, receivedSequences |-> seqs,
      totalChunks |-> Max(old.totalChunks, sequence + 1), lastUpdate |-> now]

\* findMissingChunks, the loop from index i on
RECURSIVE MissingFrom(_, _, _)
MissingFrom(m, i, expectedTotal) ==
  IF i >= expectedTotal THEN <<>>
  ELSE (IF i \in Range(m.receivedSequences) THEN <<>> ELSE <<i>>)
       \o MissingFrom(m, i + 1, expectedTotal)

\* findMissingChunks listing every index below expectedTotal
FindMissingChunksAll(m, expectedTotal) == [i \in 1..expectedTotal |-> i - 1]

\* findMissingChunks(roundId, expectedTotal) on the round's manifest; without
\* a manifest every index is missing
FindMissingChunks(m, expectedTotal) ==
  MissingFrom(IF m.exists THEN m ELSE NoManifest, 0, expectedTotal)

\* saveChunk that keeps the file of a sequence that was saved before
SaveChunkKeepsFirst(r, sequence, buffer) ==
  /\ chunks' = IF chunks[r][sequence] = NoChunk
               THEN [chunks EXCEPT ![r][sequence] = buffer] ELSE chunks
  /\ manifest' = [manifest EXCEPT ![r] = UpdateChunkManifest(@, sequence)]
  /\ saved' = [saved EXCEPT ![r][sequence] = buffer]

\* saveChunk(roundId, sequence, buffer): the chunk file is written, then
\* the manifest is updated
SaveChunk(r, sequence, buffer) ==
  /\ chunks' = [chunks EXCEPT ![r][sequence] = buffer]
  /\ manifest' = [manifest EXCEPT ![r] = UpdateChunkManifest(@, sequence)]
  /\ saved' = [saved EXCEPT ![r][sequence] = buffer]

\* saveChunk throwing: in writeFile (no chunk file is written) or, the chunk
\* file written, in updateChunkManifest
SaveChunkThrows(r, sequence, buffer, written) ==
  /\ chunks' = IF written THEN [chunks EXCEPT ![r][sequence] = buffer] ELSE chunks
  /\ saved' = IF written THEN [saved EXCEPT ![r][sequence] = buffer] ELSE saved
  /\ UNCHANGED manifest

\* saveChunk called and awaited, one call after the other
CallSaveChunk(r, sequence, buffer) ==
  /\ cpc = "idle"
  /\ SaveChunk(r, sequence, buffer)
  /\ UNCHANGED <<audio, state, cpc, asm, triggered, reply, closed>>
  /\ UNCHANGED <<queueVars, fileVars>>

\* assembleChunks reading every chunk as if it were there
AllChunksReadAlways(c, n) == TRUE

\* assembleChunks, the loop: fs.readFile of chunk i for i < totalChunks; a
\* chunk that cannot be read throws `Missing chunk i`
AllChunksRead(c, n) == \A i \in 0..(n - 1) : c[i] # NoChunk

\* Buffer.concat of the chunks taken from the last to the first
ConcatChunksReversed(c, n) == [i \in 1..n |-> c[n - i]]

\* Buffer.concat(chunks): the buffers read in the loop, chunk 0 first
ConcatChunks(c, n) == [i \in 1..n |-> c[i - 1]]

\* assembleChunks(roundId, totalChunks, mimeType) called by another caller
\* than a session
CallAssemble(r, n) ==
  /\ cpc = "idle"
  /\ state.roundId = "none"
  /\ cpc' = "assemble"
  /\ asm' = [roundId |-> r, totalChunks |-> n, direct |-> TRUE]
  /\ UNCHANGED <<manifest, chunks, saved, audio, state, triggered, reply, closed>>
  /\ UNCHANGED <<queueVars, fileVars>>

\* assembleChunks that removes the chunk directory whether or not the
\* artifact was written
AssembleWriteThenRemove(ok) ==
  /\ cpc = "assemble"
  /\ IF ok /\ AllChunksRead(chunks[asm.roundId], asm.totalChunks)
     THEN audio' = [audio EXCEPT ![asm.roundId] =
                 [exists |-> TRUE,
                  bytes |-> ConcatChunks(chunks[asm.roundId], asm.totalChunks)]]
     ELSE UNCHANGED audio
  /\ cpc' = "remove"
  /\ UNCHANGED <<manifest, chunks, saved, state, asm, triggered, reply, closed>>
  /\ UNCHANGED <<queueVars, fileVars>>

\* assembleChunks: read chunks 0..totalChunks-1 (a missing one throws),
\* write the artifact; ok = the reads and the write did not fail
AssembleWrite(ok) ==
  /\ cpc = "assemble"
  /\ IF ok /\ AllChunksRead(chunks[asm.roundId], asm.totalChunks)
     THEN /\ audio' = [audio EXCEPT ![asm.roundId] =
                 [exists |-> TRUE,
                  bytes |-> ConcatChunks(chunks[asm.roundId], asm.totalChunks)]]
          /\ cpc' = "remove"
     ELSE /\ cpc' = "failed"
          /\ UNCHANGED audio
  /\ UNCHANGED <<manifest, chunks, saved, state, asm, triggered, reply, closed>>
  /\ UNCHANGED <<queueVars, fileVars>>

\* assembleChunks: fs.rm(chunkDir, {recursive, force}) removes chunks and
\* manifest; the call returns
AssembleRemove ==
  /\ cpc = "remove"
  /\ chunks' = [chunks EXCEPT ![asm.roundId] = NoChunks]
  /\ manifest' = [manifest EXCEPT ![asm.roundId] = NoManifest]
  /\ saved' = [saved EXCEPT ![asm.roundId] = NoChunks]
  /\ cpc' = IF asm.direct THEN "idle" ELSE "update"
  /\ asm' = IF asm.direct THEN NoAssemble ELSE asm
  /\ UNCHANGED <<audio, state, triggered, reply, closed>>
  /\ UNCHANGED <<queueVars, fileVars>>

\* the error of assembleChunks reaches its caller
AssembleThrown ==
  /\ cpc = "failed"
  /\ asm.direct
  /\ cpc' = "idle"
  /\ asm' = NoAssemble
  /\ UNCHANGED <<manifest, chunks, saved, audio, state, triggered, reply, closed>>
  /\ UNCHANGED <<queueVars, fileVars>>

(* ---------------- streaming session (lib/websocket/handler.js) ---------------- *)
\* the variables of the queue side but the round store
otherQueueVars == <<queue, lock, transcript, workerStarted, loops, nextId,
                    pc, call, op, attempt, snap, arg, ret, upd, saves, claims, capped,
                    crashes, ticks>>

\* the messages the server sends
Message(type) == [type |-> type, code |-> "none", n |-> NoSequence, sequences |-> <<>>]
ErrorMessage(code) == [Message("error") EXCEPT !.code = code]
Ready(lastReceivedSequence) == [Message("ready") EXCEPT !.n = lastReceivedSequence]
Ack(sequence) == [Message("ack") EXCEPT !.n = sequence]
\* `missing` naming the first missing sequence only
MissingFirstOnly(sequences) == [Message("missing") EXCEPT !.sequences = <<sequences[1]>>]

\* {type: 'missing', sequences}
Missing(sequences) == [Message("missing") EXCEPT !.sequences = sequences]
Complete(chunkCount) == [Message("complete") EXCEPT !.n = chunkCount]

\* the control messages of the client
NoMessage == [type |-> "none", roundId |-> "none", n |-> 0]
InitMessage(r) == [NoMessage EXCEPT !.type = "init", !.roundId = r]
ChunkMessage(sequence) == [NoMessage EXCEPT !.type = "chunk", !.n = sequence]
CompleteMessage(n) == [NoMessage EXCEPT !.type = "complete", !.n = n]
ControlMessages ==
  {InitMessage(r) : r \in Rounds}
    \cup {ChunkMessage(i) : i \in 0..MaxStreamSeq}
    \cup {CompleteMessage(n) : n \in 0..(MaxStreamSeq + 1)}
    \cup {[NoMessage EXCEPT !.type = "ping"]}

\* what the 'message' event delivers: a Buffer or (text frames of ws 7) a
\* string; its bytes; the message its text stands for, if it is the JSON
\* text of one
PayloadFrames == {[isBuffer |-> TRUE, bytes |-> b, message |-> NoMessage] : b \in Payloads}
MalformedFrames ==
  {[isBuffer |-> b, bytes |-> NoPayload, message |-> NoMessage] : b \in BOOLEAN}
ControlFrames ==
  {[isBuffer |-> b, bytes |-> NoPayload, message |-> m] :
     b \in BOOLEAN, m \in ControlMessages}
Frames == PayloadFrames \cup MalformedFrames \cup ControlFrames

\* isLikelyJSON that takes a string for JSON text as well
IsLikelyJSONText(data) == data.message # NoMessage

\* isLikelyJSON(data): a Buffer of at least 2 bytes whose text starts with
\* { or [ and parses
IsLikelyJSON(data) == data.isBuffer /\ data.message # NoMessage

\* JSON.parse(data.toString())
JsonParse(data) == data.message

\* Math.max(...manifest.receivedSequences, -1)
MaxReceived(m) ==
  IF m.receivedSequences = <<>> THEN -1
  ELSE CHOOSE x \in Range(m.receivedSequences) : \A y \in Range(m.receivedSequences) : y <= x

\* the outcomes of an awaited saveChunk: it returns, writeFile throws,
\* updateChunkManifest throws
SaveResults == {"saved", "chunk", "manifest"}

\* handleMessage, Buffer while awaitingChunkData, for the session state st
\* and the messages already sent: saveChunk under pendingChunkSequence, then
\* `ack` and the awaiting state cleared; in the catch branch CHUNK_SAVE_ERROR
ReceivePayload(st, buffer, sent, res) ==
  IF st.pendingChunkSequence = NoSequence
  THEN /\ state' = st
       /\ reply' = sent
       /\ UNCHANGED <<manifest, chunks, saved>>
  ELSE IF res = "saved"
  THEN /\ SaveChunk(st.roundId, st.pendingChunkSequence, buffer)
       /\ state' = [st EXCEPT !.lastReceivedSequence = st.pendingChunkSequence,
                              !.awaitingChunkData = FALSE,
                              !.pendingChunkSequence = NoSequence]
       /\ reply' = Append(sent, Ack(st.pendingChunkSequence))
  ELSE /\ SaveChunkThrows(st.roundId, st.pendingChunkSequence, buffer, res = "manifest")
       /\ state' = st
       /\ reply' = Append(sent, ErrorMessage("CHUNK_SAVE_ERROR"))

\* handleInit for a message {type: 'init', roundId: r}; the client sends
\* it once per connection
HandleInit(r) ==
  /\ cpc = "idle"
  /\ ~closed
  /\ state.roundId = "none"
  /\ IF rounds[r] = "absent"
     THEN /\ reply' = <<ErrorMessage("ROUND_NOT_FOUND")>>
          /\ closed' = TRUE
          /\ UNCHANGED <<state, rounds>>
     ELSE /\ state' = IF manifest[r].exists
                      THEN [state EXCEPT !.roundId = r,
                                         !.lastReceivedSequence = MaxReceived(manifest[r]),
                                         !.expectedSequence = MaxReceived(manifest[r]) + 1]
                      ELSE [state EXCEPT !.roundId = r]
          /\ rounds' = UpdateRound(rounds, r, "streaming")
          /\ reply' = <<Ready(state'.lastReceivedSequence)>>
          /\ UNCHANGED closed
  /\ UNCHANGED <<manifest, chunks, saved, audio, cpc, asm, triggered>>
  /\ UNCHANGED <<otherQueueVars, fileVars>>

\* handleChunkMetadata for {type: 'chunk', sequence}: a gap is reported with
\* findMissingChunks(roundId, sequence); the session awaits the payload; a
\* buffered payload is handled at once by handleMessage
HandleChunkMetadata(sequence) ==
  /\ cpc = "idle"
  /\ ~closed
  /\ IF state.roundId = "none"
     THEN /\ reply' = <<ErrorMessage("NOT_INITIALIZED")>>
          /\ UNCHANGED <<manifest, chunks, saved, state>>
     ELSE LET missing == IF sequence # state.expectedSequence
                         THEN FindMissingChunks(manifest[state.roundId], sequence)
                         ELSE <<>>
              sent == IF missing # <<>> THEN <<Missing(missing)>> ELSE <<>>
              st == [state EXCEPT !.awaitingChunkData = TRUE,
                                  !.pendingChunkSequence = sequence,
                                  !.expectedSequence = sequence + 1]
          IN IF state.unexpectedBinaryBuffer # NoChunk
             THEN \E res \in SaveResults :
                    ReceivePayload([st EXCEPT !.unexpectedBinaryBuffer = NoChunk],
                                   state.unexpectedBinaryBuffer, sent, res)
             ELSE /\ state' = st
                  /\ reply' = sent
                  /\ UNCHANGED <<manifest, chunks, saved>>
  /\ UNCHANGED <<audio, cpc, asm, triggered, closed>>
  /\ UNCHANGED <<queueVars, fileVars>>

\* handleComplete for {type: 'complete', totalChunks}: findMissingChunks;
\* missing chunks are reported and nothing else is done; otherwise
\* assembleChunks is called
HandleComplete(n) ==
  /\ cpc = "idle"
  /\ ~closed
  /\ IF state.roundId = "none"
     THEN /\ reply' = <<ErrorMessage("NOT_INITIALIZED")>>
          /\ UNCHANGED <<cpc, asm>>
     ELSE IF FindMissingChunks(manifest[state.roundId], n) # <<>>
     THEN /\ reply' = <<Missing(FindMissingChunks(manifest[state.roundId], n))>>
          /\ UNCHANGED <<cpc, asm>>
     ELSE /\ cpc' = "assemble"
          /\ asm' = [roundId |-> state.roundId, totalChunks |-> n, direct |-> FALSE]
          /\ reply' = <<>>
  /\ UNCHANGED <<manifest, chunks, saved, audio, state, triggered, closed>>
  /\ UNCHANGED <<queueVars, fileVars>>

\* handleComplete: updateRound({status: 'processing', audio_file}), send
\* `complete`, call triggerTranscription without awaiting it
CompleteUpdateRound ==
  /\ cpc = "update"
  /\ rounds' = UpdateRound(rounds, asm.roundId, "processing")
  /\ triggered' = triggered \cup {asm.roundId}
  /\ reply' = <<Complete(asm.totalChunks)>>
  /\ cpc' = "idle"
  /\ asm' = NoAssemble
  /\ UNCHANGED <<manifest, chunks, saved, audio, state, closed>>
  /\ UNCHANGED <<otherQueueVars, fileVars>>

\* handleComplete, catch branch: updateRound({status: 'error'}), send `error`
CompleteError ==
  /\ cpc = "failed"
  /\ ~asm.direct
  /\ rounds' = UpdateRound(rounds, asm.roundId, "error")
  /\ reply' = <<ErrorMessage("ASSEMBLY_FAILED")>>
  /\ cpc' = "idle"
  /\ asm' = NoAssemble
  /\ UNCHANGED <<manifest, chunks, saved, audio, state, triggered, closed>>
  /\ UNCHANGED <<otherQueueVars, fileVars>>

\* handleMessage, the switch on message.type
Dispatch(message) ==
  CASE message.type = "init" -> HandleInit(message.roundId)
    [] message.type = "chunk" -> HandleChunkMetadata(message.n)
    [] message.type = "complete" -> HandleComplete(message.n)
    [] OTHER ->
         /\ cpc = "idle"
         /\ ~closed
         /\ reply' = IF message.type = "ping" THEN <<Message("pong")>> ELSE <<>>
         /\ UNCHANGED <<manifest, chunks, saved, audio, state, cpc, asm, triggered, closed>>
         /\ UNCHANGED <<queueVars, fileVars>>

\* handleMessage that keeps the payload it buffered first
HandleMessageKeepsFirst(data) ==
  /\ cpc = "idle"
  /\ ~closed
  /\ IF data.isBuffer /\ state.awaitingChunkData
     THEN /\ \E res \in SaveResults : ReceivePayload(state, data.bytes, <<>>, res)
          /\ UNCHANGED <<audio, cpc, asm, triggered, closed>>
          /\ UNCHANGED <<queueVars, fileVars>>
     ELSE IF data.isBuffer
     THEN /\ state' = IF state.unexpectedBinaryBuffer = NoChunk
                      THEN [state EXCEPT !.unexpectedBinaryBuffer = data.bytes]
                      ELSE state
          /\ reply' = <<>>
          /\ UNCHANGED <<manifest, chunks, saved, audio, cpc, asm, triggered, closed>>
          /\ UNCHANGED <<queueVars, fileVars>>
     ELSE IF ~IsLikelyJSON(data)
     THEN /\ reply' = <<ErrorMessage("INVALID_FORMAT")>>
          /\ UNCHANGED <<manifest, chunks, saved, audio, state, cpc, asm, triggered, closed>>
          /\ UNCHANGED <<queueVars, fileVars>>
     ELSE Dispatch(JsonParse(data))

\* handleMessage(ws, state, data) for a frame of the connection
HandleMessage(data) ==
  /\ cpc = "idle"
  /\ ~closed
  /\ IF data.isBuffer /\ state.awaitingChunkData
     THEN /\ \E res \in SaveResults : ReceivePayload(state, data.bytes, <<>>, res)
          /\ UNCHANGED <<audio, cpc, asm, triggered, closed>>
          /\ UNCHANGED <<queueVars, fileVars>>
     ELSE IF data.isBuffer
     THEN /\ state' = [state EXCEPT !.unexpectedBinaryBuffer = data.bytes]
          /\ reply' = <<>>
          /\ UNCHANGED <<manifest, chunks, saved, audio, cpc, asm, triggered, closed>>
          /\ UNCHANGED <<queueVars, fileVars>>
     ELSE IF ~IsLikelyJSON(data)
     THEN /\ reply' = <<ErrorMessage("INVALID_FORMAT")>>
          /\ UNCHANGED <<manifest, chunks, saved, audio, state, cpc, asm, triggered, closed>>
          /\ UNCHANGED <<queueVars, fileVars>>
     ELSE Dispatch(JsonParse(data))

\* the connection is dropped or closed and the client opens a new one
Reconnect ==
  /\ cpc = "idle"
  /\ state # NewSession \/ closed
  /\ state' = NewSession
  /\ closed' = FALSE
  /\ reply' = <<>>
  /\ UNCHANGED <<manifest, chunks, saved, audio, cpc, asm, triggered>>
  /\ UNCHANGED <<queueVars, fileVars>>

\* the request of triggerTranscription reaches the POST route
TriggerArrives(t) ==
  \E r \in triggered : PostTrigger(t, r)

\* nothing is recorded yet; rs = the round store
InitRounds(rs) ==
  /\ InitTasks
  /\ InitChunks
  /\ InitFiles
  /\ queue = <<>>
  /\ lock = NoLock
  /\ transcript = {}
  /\ nextId = 0
  /\ saves = [r \in Rounds |-> 0]
  /\ claims = [r \in Rounds |-> 0]
  /\ capped = {}
  /\ crashes = 0
  /\ ticks = 0
  /\ audio = [r \in Rounds |-> NoAudio]
  /\ rounds = rs

\* rounds are created, nothing is recorded yet
InitStream == InitRounds([r \in Rounds |-> "created"])

\* the frames of a client that streams payload A only
StreamFrames == {[isBuffer |-> TRUE, bytes |-> "A", message |-> NoMessage]}

\* one connection streams chunks and completes; the trigger request is
\* handled by h1 up to the start of the worker
NextStream ==
  \/ \E r \in Rounds : HandleInit(r)
  \/ \E sequence \in 0..MaxStreamSeq : HandleChunkMetadata(sequence)
  \/ \E data \in StreamFrames : HandleMessage(data)
  \/ \E n \in 0..(MaxStreamSeq + 1) : HandleComplete(n)
  \/ \E ok \in BOOLEAN : AssembleWrite(ok)
  \/ AssembleRemove
  \/ CompleteUpdateRound
  \/ CompleteError
  \/ TriggerArrives("h1")
  \/ AcqOpen("h1")
  \/ AcqWrite("h1")
  \/ BodyRead("h1")
  \/ BodyWrite("h1")
  \/ Release("h1")

SpecStream == InitStream /\ [][NextStream]_vars

\* chunks of the rounds are saved one call after the other, in any order
NextChunks ==
  \E r \in Rounds, sequence \in 0..MaxSeq, buffer \in Payloads :
    CallSaveChunk(r, sequence, buffer)

SpecChunks == InitStream /\ [][NextChunks]_vars

\* round r1 exists, round r2 does not
InitSession == InitRounds([r \in Rounds |-> IF r \in PostedRounds THEN "created" ELSE "absent"])

\* the connections of one client after the other: the handlers entered as
\* the switch of handleMessage enters them, payloads as frames
NextSession ==
  \/ \E r \in Rounds : HandleInit(r)
  \/ \E sequence \in 0..MaxStreamSeq : HandleChunkMetadata(sequence)
  \/ \E data \in PayloadFrames : HandleMessage(data)
  \/ \E n \in 0..(MaxStreamSeq + 1) : HandleComplete(n)
  \/ \E ok \in BOOLEAN : AssembleWrite(ok)
  \/ AssembleRemove
  \/ CompleteUpdateRound
  \/ CompleteError
  \/ Reconnect

SpecSession == InitSession /\ [][NextSession]_vars

\* the frames of the connections of one client, of every kind and in every
\* order; handleInit and handleChunkMetadata are also entered as the switch
\* of handleMessage enters them
NextFrames ==
  \/ \E data \in Frames : HandleMessage(data)
  \/ \E r \in Rounds : HandleInit(r)
  \/ \E sequence \in 0..MaxStreamSeq : HandleChunkMetadata(sequence)
  \/ Reconnect

SpecFrames == InitSession /\ [][NextFrames]_vars

(* ---------------- saveChunk, await by await ---------------- *)
\* handleMessage for a Buffer while awaitingChunkData, run by the handler
\* invocation s: saveChunk writes the chunk file under the
\* pendingChunkSequence it was called with; updateChunkManifest reads the
\* manifest; it writes the manifest it read with the sequence added, and the
\* handler sets lastReceivedSequence, sends `ack` and clears the awaiting
\* state, all three from state.pendingChunkSequence as it is by then
SaveChunkSteps(s) ==
  LET r == state.roundId IN
  /\ cpc = "idle"
  /\ ~closed
  /\ r # "none"
  /\ \/ /\ sv[s].pc = "idle"
        /\ state.awaitingChunkData
        /\ state.pendingChunkSequence # NoSequence
        /\ \E buffer \in Payloads :
             /\ chunks' = [chunks EXCEPT ![r][state.pendingChunkSequence] = buffer]
             /\ saved' = [saved EXCEPT ![r][state.pendingChunkSequence] = buffer]
        /\ sv' = [sv EXCEPT ![s] = [pc |-> "read", sequence |-> state.pendingChunkSequence,
                                    m |-> NoManifest, buffered |-> FALSE]]
        /\ UNCHANGED <<manifest, state, reply>>
     \/ /\ sv[s].pc = "read"
        /\ sv' = [sv EXCEPT ![s].pc = "write", ![s].m = manifest[r]]
        /\ UNCHANGED <<manifest, chunks, saved, state, reply>>
     \/ /\ sv[s].pc = "write"
        /\ manifest' = [manifest EXCEPT ![r] = UpdateChunkManifest(sv[s].m, sv[s].sequence)]
        /\ state' = [state EXCEPT !.lastReceivedSequence = state.pendingChunkSequence,
                                  !.awaitingChunkData = FALSE,
                                  !.pendingChunkSequence = NoSequence]
        /\ reply' = <<Ack(state.pendingChunkSequence)>>
        /\ sv' = [sv EXCEPT ![s] = NoSave]
        /\ UNCHANGED <<chunks, saved>>
  /\ UNCHANGED <<audio, cpc, asm, triggered, closed>>
  /\ UNCHANGED <<queueVars, qfile, tmp, now, scanned, ur>>

\* handleChunkMetadata for {type: 'chunk', sequence} while a payload is
\* buffered, run by the handler invocation s: the session awaits sequence,
\* the slot is emptied and handleMessage is called with the buffered payload,
\* which enters saveChunk under this sequence; the rest of that save are the
\* steps of SaveChunkSteps
HandleChunkMetadataBuffered(s, sequence) ==
  LET r == state.roundId
      missing == IF sequence # state.expectedSequence
                 THEN FindMissingChunks(manifest[r], sequence)
                 ELSE <<>>
  IN
  /\ cpc = "idle"
  /\ ~closed
  /\ r # "none"
  /\ state.unexpectedBinaryBuffer # NoChunk
  /\ sv[s].pc = "idle"
  /\ reply' = IF missing # <<>> THEN <<Missing(missing)>> ELSE <<>>
  /\ state' = [state EXCEPT !.awaitingChunkData = TRUE,
                            !.pendingChunkSequence = sequence,
                            !.expectedSequence = sequence + 1,
                            !.unexpectedBinaryBuffer = NoChunk]
  /\ chunks' = [chunks EXCEPT ![r][sequence] = state.unexpectedBinaryBuffer]
  /\ saved' = [saved EXCEPT ![r][sequence] = state.unexpectedBinaryBuffer]
  /\ sv' = [sv EXCEPT ![s] = [pc |-> "read", sequence |-> sequence,
                              m |-> NoManifest, buffered |-> TRUE]]
  /\ UNCHANGED <<manifest, audio, cpc, asm, triggered, closed>>
  /\ UNCHANGED <<queueVars, qfile, tmp, now, scanned, ur>>

\* one connection whose frames are handled as they arrive: the handler of a
\* frame does not wait for the handlers of the frames before it
NextOverlap ==
  \/ \E r \in Rounds : HandleInit(r)
  \/ \E sequence \in 0..MaxStreamSeq :
       state.unexpectedBinaryBuffer = NoChunk /\ HandleChunkMetadata(sequence)
  \/ \E s \in Savers, sequence \in 0..MaxStreamSeq : HandleChunkMetadataBuffered(s, sequence)
  \/ \E data \in PayloadFrames : ~state.awaitingChunkData /\ HandleMessage(data)
  \/ \E s \in Savers : SaveChunkSteps(s)

SpecOverlap == InitSession /\ [][NextOverlap]_vars

(* ---------------- updateRound, await by await ---------------- *)
\* updateRound(r, {status}) called by u: getRounds reads rounds.json; a round
\* that is not in it returns null; otherwise the whole document as read, with
\* the record of r updated, is written back
UpdateRoundSteps(u) ==
  /\ \/ /\ ur[u].pc = "idle"
        /\ \E r \in Rounds,
              status \in (IF u = "session" THEN {"streaming"} ELSE {"completed", "error"}) :
             /\ rounds[r] # "absent"
             /\ ur' = [ur EXCEPT ![u] = [pc |-> "write", roundId |-> r,
                                         status |-> status, rs |-> rounds]]
        /\ UNCHANGED rounds
     \/ /\ ur[u].pc = "write"
        /\ rounds' = UpdateRound(ur[u].rs, ur[u].roundId, ur[u].status)
        /\ ur' = [ur EXCEPT ![u] = NoUpdate]
  /\ UNCHANGED <<otherQueueVars, ingestVars, qfile, tmp, now, scanned, sv>>

\* the session and the worker update rounds at the same time
NextRounds == \E u \in Updaters : UpdateRoundSteps(u)

SpecRounds == InitStream /\ [][NextRounds]_vars

(* ---------------- orphan sweep (lib/maintenance/cleanup-chunks) ---------------- *)
\* time passes
Advance(d) ==
  /\ now + d <= MaxClock
  /\ now' = now + d
  /\ UNCHANGED <<qfile, tmp, scanned, sv, ur>>
  /\ UNCHANGED <<queueVars, ingestVars>>

\* cleanupOrphanedChunks, one iteration of its loop over the chunk
\* directories, for the directory of round r: a manifest whose age is below
\* the threshold is skipped; otherwise a missing or completed round has its
\* directory deleted, a streaming or created round is set to error and has
\* its directory deleted, any other round is left
SweepRound(r) ==
  LET age == now - manifest[r].lastUpdate
      orphaned == age >= ORPHAN_THRESHOLD_MS
                    /\ rounds[r] \in {"absent", "completed", "streaming", "created"}
  IN
  /\ cpc = "idle"
  /\ manifest[r].exists
  /\ scanned < MaxScanned
  /\ scanned' = scanned + 1
  /\ rounds' = IF orphaned /\ rounds[r] \in {"streaming", "created"}
               THEN UpdateRound(rounds, r, "error") ELSE rounds
  /\ chunks' = IF orphaned THEN [chunks EXCEPT ![r] = NoChunks] ELSE chunks
  /\ manifest' = IF orphaned THEN [manifest EXCEPT ![r] = NoManifest] ELSE manifest
  /\ saved' = IF orphaned THEN [saved EXCEPT ![r] = NoChunks] ELSE saved
  /\ UNCHANGED <<audio, state, cpc, asm, triggered, reply, closed>>
  /\ UNCHANGED <<otherQueueVars, qfile, tmp, now, sv, ur>>

\* the connections of one client and the sweep, which runs at any time
NextSweep ==
  \/ \E r \in Rounds : HandleInit(r)
  \/ \E sequence \in 0..MaxStreamSeq : HandleChunkMetadata(sequence)
  \/ \E data \in StreamFrames : HandleMessage(data)
  \/ \E n \in 0..(MaxStreamSeq + 1) : HandleComplete(n)
  \/ \E ok \in BOOLEAN : AssembleWrite(ok)
  \/ AssembleRemove
  \/ CompleteUpdateRound
  \/ CompleteError
  \/ Reconnect
  \/ \E d \in {ORPHAN_THRESHOLD_MS - 1, ORPHAN_THRESHOLD_MS, ORPHAN_THRESHOLD_MS + 1} : Advance(d)
  \/ \E r \in Rounds : SweepRound(r)

SpecSweep == InitSession /\ [][NextSweep]_vars

\* saveChunk and assembleChunks called one after the other for round r1
NextAssemble ==
  \/ \E r \in PostedRounds, sequence \in 0..MaxStreamSeq, buffer \in Payloads :
       CallSaveChunk(r, sequence, buffer)
  \/ \E r \in PostedRounds, n \in 0..(MaxStreamSeq + 1) : CallAssemble(r, n)
  \/ \E ok \in BOOLEAN : AssembleWrite(ok)
  \/ AssembleRemove
  \/ AssembleThrown

SpecAssemble == InitStream /\ [][NextAssemble]_vars


(* ======================= properties ======================= *)
\* task t takes a step of its code (a crash ends its call)
Steps(t) == call'[t] = call[t] /\ (pc'[t] # pc[t] \/ attempt'[t] # attempt[t])

InBody(t) == pc[t] \in {"body_read", "body_write"}

\* C1: in every state of the queue document each roundId has at most one
\* job whose status is queued or processing
C1_OneActivePerRound == \A r \in Rounds : ActiveCount(queue, r) <= 1

\* a round has a terminal job and, after a new trigger, an active one
C1_Witness ==
  \E i, k \in Indices(queue) :
    /\ i # k
    /\ queue[i].roundId = queue[k].roundId
    /\ ~Active(queue[i])
    /\ Active(queue[k])

\* C2: enqueue calls for one round that have returned (no worker runs, so no
\* job becomes terminal) all returned the same job, and the queue holds
\* exactly one queued/processing job for that round
C2_SameJob ==
  \A t1, t2 \in Handlers :
    ( /\ pc[t1] = "idle" /\ call[t1] = "enqueue" /\ ret[t1] # TimeoutErr
      /\ pc[t2] = "idle" /\ call[t2] = "enqueue" /\ ret[t2] # TimeoutErr
      /\ arg[t1] = arg[t2] )
    => /\ ret[t1] = ret[t2]
       /\ ActiveCount(queue, arg[t1]) = 1

\* C3: at no time are two callers both executing the body passed to withLock
C3_MutualExclusion == Cardinality({t \in Tasks : InBody(t)}) <= 1

\* C4: acquireLock on an existing lock file: a lock older than LOCK_TTL_MS is
\* deleted by the acquirer, which then tries to create its own; a lock whose
\* age is at most the TTL is neither deleted nor obtained
C4_ReclaimOnlyExpired ==
  [][\A t \in Tasks :
       /\ (pc[t] = "acq_open" /\ Steps(t) /\ lock.exists /\ lock.written /\ Expired(lock))
            => pc'[t] = "acq_unlink"
       /\ (pc[t] = "acq_open" /\ Steps(t) /\ lock.exists /\ ~(lock.written /\ Expired(lock)))
            => (lock' = lock /\ pc'[t] \notin {"acq_unlink", "acq_write", "body_read"})
       /\ (pc[t] = "acq_unlink" /\ Steps(t) /\ lock.exists)
            => (lock.written /\ Expired(lock) /\ ~lock'.exists /\ pc'[t] = "acq_open")
    ]_vars

\* claimNextJob selects a job in this step
Selects(t) == pc[t] = "body_read" /\ op[t] = "claim" /\ pc'[t] = "body_write"

\* C5: once a job's attempts counter has reached the cap, no later claimNext
\* selects it
C5_CappedNeverClaimed == [][\A t \in Tasks : Selects(t) => ret'[t] \notin capped]_vars

Recovers(t) == pc[t] = "body_read" /\ op[t] = "recover" /\ Steps(t)

\* the document recoverQueue leaves: written back only when a job changed
Recovered(t) == IF pc'[t] = "body_write" THEN snap'[t] ELSE queue

\* C8: recovery of a processing job whose transcript exists sets the job and
\* its round to completed, and does not requeue it
C8_RecoverCompleted ==
  [][\A t \in Tasks : Recovers(t) =>
       \A i \in Indices(queue) :
         (queue[i].status = "processing" /\ queue[i].roundId \in transcript)
           => /\ Recovered(t)[i] = [queue[i] EXCEPT !.status = "completed"]
              /\ rounds'[queue[i].roundId] = "completed"
    ]_vars

\* recovery has met a processing job whose transcript exists, at its last attempt
C8_Witness ==
  \E t \in Tasks :
    /\ op[t] = "recover" /\ pc[t] = "body_write"
    /\ \E i \in Indices(snap[t]) :
         /\ snap[t][i].status = "completed"
         /\ snap[t][i].attempts = MAX_ATTEMPTS
         /\ queue[i].status = "processing"
         /\ rounds[snap[t][i].roundId] = "completed"

\* C9: recovery of a processing job without transcript: attempts < 3 ->
\* queued, attempts and round status unchanged; otherwise job and round
\* error; jobs that are not processing are left unchanged
C9_RecoverRequeueOrError ==
  [][\A t \in Tasks : Recovers(t) =>
       /\ Len(Recovered(t)) = Len(queue)
       /\ \A i \in Indices(queue) :
            LET j == queue[i] IN
            /\ (j.status = "processing" /\ j.roundId \notin transcript /\ j.attempts < 3)
                 => /\ Recovered(t)[i] = [j EXCEPT !.status = "queued"]
                    /\ rounds'[j.roundId] = rounds[j.roundId]
            /\ (j.status = "processing" /\ j.roundId \notin transcript /\ j.attempts >= 3)
                 => /\ Recovered(t)[i] = [j EXCEPT !.status = "error"]
                    /\ rounds'[j.roundId] = "error"
            /\ j.status # "processing" => Recovered(t)[i] = j
    ]_vars

\* recovery has failed a job that had used its last attempt, next to a job
\* that was not processing
C9_Witness ==
  \E t \in Tasks :
    /\ op[t] = "recover" /\ pc[t] = "body_write"
    /\ \E i, k \in Indices(snap[t]) :
         /\ snap[t][i].status = "error"
         /\ queue[i].status = "processing"
         /\ rounds[snap[t][i].roundId] = "error"
         /\ queue[k].status # "processing"
         /\ snap[t][k] = queue[k]

\* recovery has requeued a job
C9_WitnessRequeue ==
  \E t \in Tasks :
    /\ op[t] = "recover" /\ pc[t] = "body_write"
    /\ \E i \in Indices(snap[t]) :
         snap[t][i].status = "queued" /\ queue[i].status = "processing"

\* C7: on `complete`, assembly, round-status update and enqueue appear
\* atomic: a round that a session has set to streaming is never seen with
\* another status unless its artifact is assembled and its job is enqueued
C7_AtomicCompletion ==
  \A r \in Rounds :
    rounds[r] \notin {"created", "streaming"}
      => /\ audio[r].exists
         /\ \E i \in Indices(queue) : queue[i].roundId = r

\* C10: once chunks 0..N-1 of a round have all been saved, in any order and
\* with duplicates, findMissingChunks(roundId, N) returns the empty list
C10_NoneMissing ==
  \A r \in Rounds, n \in 0..(MaxSeq + 1) :
    (\A i \in 0..(n - 1) : saved[r][i] # NoChunk)
      => FindMissingChunks(manifest[r], n) = <<>>

\* all chunks of a round have been saved and none is reported missing
C10_Witness ==
  \E r \in Rounds :
    /\ \A i \in 0..MaxSeq : saved[r][i] # NoChunk
    /\ manifest[r].receivedSequences = [i \in 1..(MaxSeq + 1) |-> i - 1]
    /\ FindMissingChunks(manifest[r], MaxSeq + 1) = <<>>

\* chunk i of the running assembleChunks call is absent
AbsentChunk(i) == i \in 0..(asm.totalChunks - 1) /\ chunks[asm.roundId][i] = NoChunk

\* C11: assembleChunks(roundId, totalChunks) throws whenever a chunk with
\* sequence in [0, totalChunks) is absent, and then writes no artifact and
\* keeps the staging data; an artifact it writes holds every chunk in range
C11_FailsOnAbsentChunk ==
  [][/\ (cpc = "assemble" /\ \E i \in 0..MaxSeq : AbsentChunk(i))
          => cpc' = "failed"
     /\ (cpc \in {"assemble", "failed"} /\ cpc' \in {"failed", "idle"})
          => audio' = audio /\ chunks' = chunks /\ manifest' = manifest
     /\ (cpc = "assemble" /\ cpc' = "remove")
          => /\ Len(audio'[asm.roundId].bytes) = asm.totalChunks
             /\ \A i \in 1..asm.totalChunks :
                  audio'[asm.roundId].bytes[i] \in Payloads]_vars

\* assembleChunks(r1, 2) has thrown: chunk 1 is saved, chunk 0 is absent, no
\* artifact is written
C11_Witness ==
  /\ cpc = "failed" /\ asm.direct /\ asm.totalChunks = 2
  /\ AbsentChunk(0) /\ ~AbsentChunk(1)
  /\ chunks[asm.roundId][1] \in Payloads
  /\ manifest[asm.roundId].receivedSequences = <<1>>
  /\ audio[asm.roundId] = NoAudio

\* C12: when a `complete{totalChunks: N}` succeeds, the artifact's bytes are
\* the payloads saved last for the sequences 0, 1, ..., N-1, in ascending
\* sequence order, whatever the order of arrival
C12_ArtifactInSequenceOrder ==
  [][(cpc = "assemble" /\ cpc' = "remove" /\ ~asm.direct)
       => /\ audio'[asm.roundId].exists
          /\ Len(audio'[asm.roundId].bytes) = asm.totalChunks
          /\ \A i \in 0..(asm.totalChunks - 1) :
               audio'[asm.roundId].bytes[i + 1] = saved[asm.roundId][i]]_vars

\* complete{totalChunks: 2} has written the artifact A, B of a session whose
\* chunk 0 (payload A) arrived after its chunk 1 (payload B)
C12_Witness ==
  /\ cpc = "remove" /\ ~asm.direct /\ asm.totalChunks = 2
  /\ state.roundId = asm.roundId
  /\ state.lastReceivedSequence = 0 /\ state.expectedSequence = 1
  /\ audio[asm.roundId].bytes = <<"A", "B">>

\* the `init` control frames that name round r
InitFrames(r) == {data \in ControlFrames : data.message = InitMessage(r)}

\* Math.max of the persisted manifest of round r, -1 without a manifest
Resumed(r) == IF manifest[r].exists THEN MaxReceived(manifest[r]) ELSE -1

\* C13: an `init` control frame for an existing round is answered with
\* `ready` whose lastReceivedSequence is the maximum of the round's persisted
\* manifest (-1 without one), and expectedSequence becomes that plus one, in
\* a first session and in every later one
C13_InitResumes ==
  [][\A r \in Rounds : \A data \in InitFrames(r) :
       (rounds[r] # "absent" /\ HandleMessage(data))
         => /\ reply' = <<Ready(Resumed(r))>>
            /\ state'.roundId = r
            /\ state'.expectedSequence = Resumed(r) + 1]_vars

\* C14: an `init` frame that names a round that does not exist is answered
\* with `error` ROUND_NOT_FOUND and the connection is closed; the session's
\* roundId stays unset, no round is modified and no manifest is created
C14_InitRoundNotFound ==
  [][\A r \in Rounds : \A data \in InitFrames(r) :
       (rounds[r] = "absent" /\ HandleMessage(data))
         => /\ reply' = <<ErrorMessage("ROUND_NOT_FOUND")>>
            /\ closed'
            /\ state'.roundId = "none"
            /\ rounds' = rounds
            /\ manifest' = manifest]_vars

\* C15: `complete{totalChunks}` while findMissingChunks(roundId, totalChunks)
\* is not empty sends `missing` with exactly those sequences and changes
\* nothing else: artifact, staging data, manifest, round status and queue
C15_MissingChangesNothing ==
  [][\A n \in 0..(MaxStreamSeq + 1) :
       (/\ state.roundId # "none"
        /\ FindMissingChunks(manifest[state.roundId], n) # <<>>
        /\ HandleComplete(n))
         => /\ Len(reply') = 1
            /\ reply'[1].type = "missing"
            /\ reply'[1].sequences = FindMissingChunks(manifest[state.roundId], n)
            /\ Range(reply'[1].sequences) =
                 {i \in 0..(n - 1) : i \notin Range(manifest[state.roundId].receivedSequences)}
            /\ UNCHANGED <<audio, chunks, manifest, saved, rounds, queue, triggered,
                           state, cpc, asm, closed>>]_vars

\* complete{totalChunks: 2} of a session that has saved chunk 1 only has
\* been answered with missing [0]
C15_Witness ==
  /\ state.roundId # "none" /\ ~state.awaitingChunkData /\ cpc = "idle"
  /\ manifest[state.roundId].receivedSequences = <<1>>
  /\ reply = <<[type |-> "missing", code |-> "none", n |-> NoSequence, sequences |-> <<0>>]>>
  /\ audio[state.roundId] = NoAudio
  /\ rounds[state.roundId] = "streaming"

\* C16: when saving the payload that the session awaits fails, the server
\* replies a typed `error` and clears the awaiting state (flag false,
\* pendingSequence unset)
C16_SaveErrorClearsAwaiting ==
  [][\A data \in PayloadFrames :
       (/\ state.awaitingChunkData
        /\ HandleMessage(data)
        /\ reply' # <<Ack(state.pendingChunkSequence)>>)
         => /\ Len(reply') = 1
            /\ reply'[1].type = "error"
            /\ ~state'.awaitingChunkData
            /\ state'.pendingChunkSequence = NoSequence]_vars

\* C17: a malformed frame is answered with a typed `error`, the connection
\* stays open and the session state is unchanged
C17_MalformedFrameRejected ==
  [][\A data \in MalformedFrames :
       HandleMessage(data)
         => /\ Len(reply') = 1
            /\ reply'[1].type = "error"
            /\ ~closed'
            /\ state' = state
            /\ chunks' = chunks /\ manifest' = manifest]_vars

\* C18: however often and however concurrently startTranscriptionWorker is
\* called within one process, at most one polling loop runs in that process
C18_OneLoop == loops <= 1

\* one call started the worker and is waiting for the lock, another call made
\* meanwhile has returned at once
C18_Witness ==
  /\ workerStarted /\ loops = 0
  /\ call["h1"] = "start" /\ op["h1"] = "recover"
  /\ call["h2"] = "start" /\ pc["h2"] = "s_reply"

\* C19: the worker runs its jobs strictly one at a time: it claims no job
\* before the job it claimed earlier is completed or error, so at most one
\* claimed job is in status processing at any time
C19_OneProcessing ==
  Cardinality({i \in Indices(queue) : queue[i].status = "processing"}) <= 1

\* processJob of task t is over after a failure: its updateJob(error) returned
\* or threw, and the loop goes on to claim again
FailureEnds(t) ==
  call[t] = "loop" /\ op[t] = "update" /\ upd[t] = "error" /\ op'[t] = "claim"

\* C20: when processJob has failed, the round and the job are both error and
\* the job holds the error message; a job in status error stays in error
C20_FailureIsTerminal ==
  [][/\ FailureEnds(Worker) =>
          /\ rounds'[arg[Worker]] \in {"error", "absent"}
          /\ \E i \in Indices(queue') :
                /\ queue'[i].id = ret[Worker]
                /\ queue'[i].status = "error"
                /\ queue'[i].lastError = "message"
     /\ \A i \in Indices(queue) :
          queue[i].status = "error" =>
            \E k \in Indices(queue') :
              queue'[k].id = queue[i].id /\ queue'[k].status = "error"]_vars

\* C25: claimNext selects the first job in queue order with status queued and
\* attempts < 3, sets it to processing, increases its attempts by exactly one
\* and persists that document, all other jobs unchanged; when no job is
\* eligible it returns none and leaves the queue document unchanged
C25_ClaimFirstEligible ==
  [][\A t \in Tasks :
       LET eligible == {k \in Indices(queue) :
                          queue[k].status = "queued" /\ queue[k].attempts < 3}
       IN
       /\ (pc[t] = "body_read" /\ op[t] = "claim" /\ Steps(t)) =>
            IF eligible = {}
            THEN ret'[t] = NoJob /\ pc'[t] = "release" /\ queue' = queue
            ELSE LET i == CHOOSE k \in eligible : \A m \in eligible : k <= m IN
                 /\ ret'[t] = queue[i].id
                 /\ pc'[t] = "body_write"
                 /\ Len(snap'[t]) = Len(queue)
                 /\ snap'[t][i] = [queue[i] EXCEPT !.status = "processing",
                                                   !.attempts = queue[i].attempts + 1]
                 /\ \A k \in Indices(queue) \ {i} : snap'[t][k] = queue[k]
       /\ (pc[t] = "body_write" /\ op[t] = "claim" /\ Steps(t)) => queue' = snap[t]
    ]_vars

\* claimNextJob has selected the first of two eligible jobs
C25_Witness ==
  /\ pc[Worker] = "body_write" /\ op[Worker] = "claim"
  /\ Len(queue) = 2
  /\ \A k \in {1, 2} : queue[k].status = "queued" /\ queue[k].attempts < 3
  /\ snap[Worker][1].status = "processing"
  /\ snap[Worker][1].attempts = queue[1].attempts + 1
  /\ snap[Worker][2] = queue[2]
  /\ ret[Worker] = queue[1].id

\* C26: enqueue for a round that already has a queued or processing job
\* returns that job and leaves the queue document unchanged; otherwise it
\* appends exactly one new job with status queued and attempts 0
C26_EnqueueReturnsExisting ==
  [][\A t \in Tasks :
       LET active == {k \in Indices(queue) :
                        /\ queue[k].roundId = arg[t]
                        /\ queue[k].status \in {"queued", "processing"}}
       IN
       /\ (pc[t] = "body_read" /\ op[t] = "enqueue" /\ Steps(t)) =>
            IF active # {}
            THEN /\ \E k \in active : ret'[t] = queue[k].id
                 /\ pc'[t] = "release"
                 /\ queue' = queue
            ELSE /\ pc'[t] = "body_write"
                 /\ Len(snap'[t]) = Len(queue) + 1
                 /\ \A k \in Indices(queue) : snap'[t][k] = queue[k]
                 /\ snap'[t][Len(queue) + 1].roundId = arg[t]
                 /\ snap'[t][Len(queue) + 1].status = "queued"
                 /\ snap'[t][Len(queue) + 1].attempts = 0
                 /\ snap'[t][Len(queue) + 1].id = ret'[t]
                 /\ \A k \in Indices(queue) : queue[k].id # ret'[t]
       /\ (pc[t] = "body_write" /\ op[t] = "enqueue" /\ Steps(t)) => queue' = snap[t]
    ]_vars

\* an enqueue call has found the queued job of its round, which another call
\* created, and is about to return it without a write
C26_Witness ==
  \E t \in Handlers :
    /\ pc[t] = "release" /\ op[t] = "enqueue" /\ snap[t] = <<>>
    /\ Len(queue) = 1
    /\ queue[1] = NewJob(ret[t], arg[t])
    /\ nextId = 2

\* C27: withLock terminates: on a lock held live by another party it retries
\* the acquisition, 20 attempts in all, and then fails with the lock-timeout
\* error without having executed its body; when it acquires the lock it
\* executes the body exactly once and leaves
C27_WithLockBounded ==
  [][\A t \in Tasks : Steps(t) =>
       LET retry == pc'[t] = "acq_open" /\ attempt'[t] > attempt[t] /\ attempt'[t] < 20
                      /\ op'[t] = op[t]
           timeout == /\ attempt[t] = 19
                      /\ pc'[t] \notin {"acq_write", "acq_unlink", "body_read", "body_write", "release"}
                      /\ attempt'[t] = 0
                      /\ call[t] = "enqueue" => ret'[t] = TimeoutErr
                      /\ queue' = queue /\ lock' = lock
       IN
       /\ attempt[t] < 20
       /\ (pc[t] = "acq_open" /\ lock.exists /\ ~(lock.written /\ Expired(lock)))
            => retry \/ timeout
       /\ pc[t] \in {"acq_open", "acq_unlink"}
            => \/ pc'[t] \in {"acq_write", "acq_unlink", "acq_open"} /\ attempt'[t] = attempt[t]
               \/ retry
               \/ timeout
       /\ pc'[t] = "body_read" => pc[t] = "acq_write"
       /\ pc[t] = "body_read" => pc'[t] \in {"body_write", "release"}
       /\ pc[t] = "body_write" => pc'[t] = "release"
       /\ pc[t] = "release"
            => /\ pc'[t] \notin {"acq_write", "acq_unlink", "body_read", "body_write", "release"}
               /\ attempt'[t] = 0
               /\ call[t] = "enqueue" => ret'[t] # TimeoutErr
    ]_vars

\* an enqueue call has failed with the lock-timeout error while another
\* caller, which holds the live lock, runs its body
C27_Witness ==
  \E t, u \in Handlers :
    /\ t # u
    /\ call[t] = "enqueue" /\ pc[t] = "idle" /\ ret[t] = TimeoutErr
    /\ lock.exists /\ lock.written /\ ~Expired(lock) /\ lock.owner = u
    /\ InBody(u)
    /\ queue = <<>>

\* C28: startup recovery runs once and finishes before the worker's first
\* claimNext: the polling loop does not exist while recoverQueue has not
\* returned, it is started by the return of recoverQueue, and no later start
\* call of the same process runs recoverQueue again
C28_RecoveryOnceBeforePolling ==
  [][/\ \A t \in Tasks : op'[t] = "recover" => call'[Worker] = "none" /\ t # Worker
     /\ \A t \in Tasks :
          (op[t] # "recover" /\ op'[t] = "recover") => ~workerStarted /\ workerStarted'
     /\ (workerStarted /\ ~workerStarted') => crashes' = crashes + 1
     /\ (call[Worker] # "loop" /\ call'[Worker] = "loop")
          => /\ \E t \in Handlers : op[t] = "recover" /\ pc[t] = "release" /\ op'[t] = "none"
             /\ op'[Worker] = "claim" /\ pc'[Worker] = "acq_open"
             /\ claims' = claims
    ]_vars

\* the loop polls after a recovery that requeued a job; a later start call
\* has returned at once
C28_Witness ==
  /\ workerStarted /\ call[Worker] = "loop" /\ op[Worker] = "claim"
  /\ call["h2"] = "start" /\ pc["h2"] = "s_reply"
  /\ Len(queue) = 1 /\ queue[1].id = OldJobId /\ queue[1].status = "queued"
  /\ crashes = 0

\* C21: every job that the worker has claimed eventually reaches a terminal
\* status (completed or error) while the engine call returns or fails and the
\* worker keeps running; no job stays in status processing forever
C21_ClaimedJobTerminates ==
  \A id \in {OldJobId} \cup (1..MaxJobs) :
    (call[Worker] = "loop" /\ pc[Worker] = "p_engine" /\ ret[Worker] = id)
      ~> (\E i \in Indices(queue) :
            queue[i].id = id /\ queue[i].status \in {"completed", "error"})

\* C23: the queue document on stable storage is never observed corrupt: a
\* readQueue, also one that follows a crash in the middle of a queue
\* mutation, finds a whole document (or no file yet)
C23_NeverCorrupt ==
  [][\A t \in Tasks : (pc[t] = "body_read" /\ Steps(t)) => qfile # "partial"]_vars

\* C24: the orphan sweep abandons a manifest exactly when its lastUpdate age
\* exceeds the threshold and its round is not actively streaming (no session
\* is connected for it): then the staging data is purged and the round is
\* forced to error; a manifest younger than the threshold, or one whose
\* round is actively streaming, is left untouched
C24_SweepAbandonsOrphans ==
  [][\A r \in Rounds :
       LET age == now - manifest[r].lastUpdate
           active == state.roundId = r /\ ~closed
       IN
       SweepRound(r) =>
         /\ (age > ORPHAN_THRESHOLD_MS /\ ~active)
              => /\ manifest'[r] = NoManifest
                 /\ chunks'[r] = NoChunks
                 /\ rounds'[r] = "error"
         /\ (age < ORPHAN_THRESHOLD_MS \/ active)
              => UNCHANGED <<manifest, chunks, rounds>>]_vars

C30_PayloadSavedAndAcked ==
  [][\A data \in PayloadFrames :
       LET r == state.roundId
           sequence == state.pendingChunkSequence
       IN
       (/\ state.awaitingChunkData
        /\ HandleMessage(data)
        /\ reply' # <<ErrorMessage("CHUNK_SAVE_ERROR")>>)
         => /\ chunks'[r][sequence] = data.bytes
            /\ \A i \in 0..MaxSeq : i # sequence => chunks'[r][i] = chunks[r][i]
            /\ manifest'[r].exists
            /\ Range(manifest'[r].receivedSequences) =
                 Range(manifest[r].receivedSequences) \cup {sequence}
            /\ sequence \in Range(manifest[r].receivedSequences)
                 => manifest'[r].receivedSequences = manifest[r].receivedSequences
            /\ reply' = <<Ack(sequence)>>
            /\ ~state'.awaitingChunkData
            /\ state'.pendingChunkSequence = NoSequence]_vars

\* payload B has been saved as chunk 0 and acknowledged, after chunk 1 was
\* saved with payload A
C30_Witness ==
  /\ state.roundId # "none" /\ ~state.awaitingChunkData
  /\ state.pendingChunkSequence = NoSequence
  /\ state.lastReceivedSequence = 0
  /\ reply = <<Ack(0)>>
  /\ chunks[state.roundId][0] = "B" /\ chunks[state.roundId][1] = "A"
  /\ manifest[state.roundId].receivedSequences = <<0, 1>>

\* C22: while a round is streaming, its manifest's receivedSequences never
\* loses an element, totalChunks never decreases and equals 1 + the maximum
\* received sequence, after any sequence of saveChunk calls, including saves
\* whose handlers overlap in time on one connection
C22_ManifestGrows ==
  [][\A r \in Rounds :
       (rounds[r] = "streaming" /\ rounds'[r] = "streaming")
         => /\ Range(manifest[r].receivedSequences) \subseteq Range(manifest'[r].receivedSequences)
            /\ manifest'[r].totalChunks >= manifest[r].totalChunks
            /\ manifest'[r].exists
                 => manifest'[r].totalChunks = 1 + MaxReceived(manifest'[r])]_vars

\* C31: a Buffer frame received while the session is not awaiting is held in
\* the single slot unexpectedBinaryBuffer: it replaces what the slot held, no
\* message is sent and no other session field, chunk or manifest changes
C31_SingleSlot ==
  [][\A data \in Frames :
       (data.isBuffer /\ ~state.awaitingChunkData /\ HandleMessage(data))
         => /\ state' = [state EXCEPT !.unexpectedBinaryBuffer = data.bytes]
            /\ reply' = <<>>
            /\ UNCHANGED <<manifest, chunks, saved, audio, rounds>>]_vars

\* payload B is held in the slot of an initialized session that is not
\* awaiting, and nothing was sent for it
C31_Witness ==
  /\ state.roundId # "none"
  /\ ~state.awaitingChunkData
  /\ state.unexpectedBinaryBuffer = "B"
  /\ reply = <<>>

\* C32: if a payload is buffered when `chunk{sequence}` arrives, that payload
\* is saved as this sequence's payload and acknowledged before any further
\* frame is accepted, and the buffer slot is emptied: from the metadata to
\* the ack every step is a step of that save, the slot stays empty, and the
\* save ends with `ack` for this sequence
C32_BufferedSavedFirst ==
  [][\A s \in Savers :
       (sv[s].buffered /\ sv[s].pc # "idle")
         => /\ sv'[s] # sv[s]
            /\ state'.unexpectedBinaryBuffer = NoChunk
            /\ chunks'[state.roundId][sv[s].sequence] = chunks[state.roundId][sv[s].sequence]
            /\ sv'[s].pc = "idle"
                 => /\ reply' = <<Ack(sv[s].sequence)>>
                    /\ sv[s].sequence \in Range(manifest'[state.roundId].receivedSequences)]_vars

\* C35: every `ack{s}` the server sends names a sequence s whose payload has
\* been persisted and recorded in the manifest, also when the frames of one
\* connection are handled in overlapping handlers
C35_AckedIsPersisted ==
  [][\A s \in Savers :
       (sv[s].pc = "write" /\ sv'[s].pc = "idle")
         => \A i \in 1..Len(reply') :
              reply'[i].type = "ack"
                => /\ reply'[i].n \in 0..MaxSeq
                   /\ chunks'[state.roundId][reply'[i].n] # NoChunk
                   /\ reply'[i].n \in Range(manifest'[state.roundId].receivedSequences)]_vars

\* C33: assembleChunks deletes the round's staging data (chunks and
\* manifest) only after the artifact has been written successfully; if the
\* artifact write fails the staging data is still present
C33_RemoveAfterWrite ==
  [][\A r \in Rounds :
       /\ (\/ \E i \in 0..MaxSeq : chunks[r][i] # NoChunk /\ chunks'[r][i] = NoChunk
           \/ manifest[r].exists /\ ~manifest'[r].exists)
            => /\ asm.roundId = r
               /\ AllChunksRead(chunks[r], asm.totalChunks)
               /\ audio[r] = [exists |-> TRUE, bytes |-> ConcatChunks(chunks[r], asm.totalChunks)]
       /\ (asm.roundId = r /\ (cpc = "failed" \/ cpc' = "failed"))
            => chunks'[r] = chunks[r] /\ manifest'[r] = manifest[r]]_vars

\* the write of the artifact failed after every chunk was read, and chunks
\* and manifest are still there
C33_Witness ==
  /\ cpc = "failed"
  /\ asm.totalChunks >= 1
  /\ AllChunksRead(chunks[asm.roundId], asm.totalChunks)
  /\ manifest[asm.roundId].exists
  /\ ~audio[asm.roundId].exists

\* C34: whenever processJob sets a job to completed, the round's transcript
\* has already been persisted and the round has already been set to
\* completed: updateJob(completed) is called only in the step that set the
\* round completed with the transcript saved, and only that call writes
\* `completed` for the job
C34_CompletedLast ==
  [][\A t \in Tasks :
       /\ (upd'[t] = "completed" /\ upd[t] # "completed")
            => /\ arg[t] \in transcript
               /\ rounds'[arg[t]] = "completed"
               /\ op'[t] = "update"
       /\ (op[t] = "update" /\ pc[t] = "body_write" /\ pc'[t] = "release")
            => \A i \in Indices(queue') :
                 (/\ queue'[i].id = ret[t]
                  /\ queue'[i].status = "completed"
                  /\ \E k \in Indices(queue) : queue[k].id = ret[t] /\ queue[k].status # "completed")
                   => /\ upd[t] = "completed"
                      /\ queue'[i].roundId \in transcript]_vars

\* the worker has written `completed` for the job it processed
C34_Witness ==
  /\ op[Worker] = "update" /\ pc[Worker] = "release" /\ upd[Worker] = "completed"
  /\ \E i \in Indices(queue) :
       /\ queue[i].id = ret[Worker]
       /\ queue[i].status = "completed"
       /\ queue[i].roundId \in transcript
       /\ rounds[queue[i].roundId] = "completed"

\* C36: in handleMessage a Buffer frame is never parsed as a control
\* message: it is consumed as the pending chunk's payload when the session
\* is awaiting, and by the single-slot buffer when it is not; a frame that is
\* not a Buffer is always answered with INVALID_FORMAT; so no frame reaches
\* the init/chunk/complete/ping dispatch
C36_DispatchUnreachable ==
  [][\A data \in Frames :
       HandleMessage(data)
         => IF data.isBuffer /\ state.awaitingChunkData
            THEN /\ reply' \in {<<Ack(state.pendingChunkSequence)>>,
                                <<ErrorMessage("CHUNK_SAVE_ERROR")>>}
                 /\ reply'[1].type = "ack"
                      => chunks'[state.roundId][state.pendingChunkSequence] = data.bytes
                 /\ state'.roundId = state.roundId
                 /\ UNCHANGED <<rounds, cpc, asm>>
            ELSE IF data.isBuffer
            THEN /\ state' = [state EXCEPT !.unexpectedBinaryBuffer = data.bytes]
                 /\ reply' = <<>>
                 /\ UNCHANGED <<manifest, chunks, rounds, cpc, asm>>
            ELSE /\ reply' = <<ErrorMessage("INVALID_FORMAT")>>
                 /\ UNCHANGED <<state, manifest, chunks, rounds, cpc, asm>>]_vars

\* the text of a control message, sent as a Buffer while the session was
\* awaiting, was stored as a chunk
C36_Witness ==
  /\ state.roundId # "none"
  /\ \E i \in 0..MaxSeq : chunks[state.roundId][i] = NoPayload
  /\ reply = <<Ack(state.lastReceivedSequence)>>

\* C37: after a `complete{totalChunks: N}` succeeds, every chunk that was
\* persisted for the round is contained in the artifact: when the completion
\* removes the chunk directory, each chunk in it has a sequence below N and
\* is in the artifact at its place
C37_NoSavedChunkDiscarded ==
  [][(cpc = "remove" /\ ~asm.direct /\ cpc' = "update")
       => \A i \in 0..MaxSeq :
            chunks[asm.roundId][i] # NoChunk
              => /\ i < asm.totalChunks
                 /\ audio[asm.roundId].bytes[i + 1] = chunks[asm.roundId][i]]_vars

\* C38: updateRound(A, updates) changes only round A's record, under any
\* interleaving of updateRound calls on different rounds: the write of a
\* call leaves the record of every other round as it is in the round store,
\* so that no update that has returned is lost
C38_OnlyItsRound ==
  [][\A u \in Updaters :
       (ur[u].pc = "write" /\ ur'[u].pc = "idle")
         => /\ rounds'[ur[u].roundId] = ur[u].status
            /\ \A r \in Rounds \ {ur[u].roundId} : rounds'[r] = rounds[r]]_vars

\* C39: a lock file left behind by a holder that crashed at any point, also
\* between creating the file and writing its contents, is reclaimed by a
\* later acquirer once its TTL has passed: when a task tries to acquire while
\* such a file is there, in a server that does not die again, the file is
\* eventually gone or taken over. (The age of a lock file is what the code
\* computes from its contents; for a file without contents the code reads no
\* clock, so no passing of time changes what an acquirer does with it.)
C39_CrashedLockReclaimed ==
  (/\ lock.exists /\ lock.owner = "dead"
   /\ lock.written => Expired(lock)
   /\ crashes = MaxCrashes
   /\ \E t \in Tasks : pc[t] = "acq_open")
    ~> ~(lock.exists /\ lock.owner = "dead")

\* C40: whenever the in-process flag workerStarted is true, either startup
\* recovery is in progress or exactly one polling loop is running; in
\* particular the flag does not stay true with no loop running when
\* recovery fails
C40_FlagMeansWorker ==
  workerStarted
    => \/ \E t \in Tasks : op[t] = "recover"
       \/ loops = 1 /\ call[Worker] = "loop"

====
